---- MODULE Spec2Model ----
(***************************************************************************)
(* Project working copy engine of osc2 (osc/wc/project.py).                *)
(*                                                                         *)
(* The model covers the on-disk state of one project working copy (the     *)
(* packages manifest, the transaction record, the package directories,    *)
(* the external stores, the scratch directory of a transaction), the      *)
(* remote package listing, the project lock, and a bounded number of      *)
(* processes: each opens the working copy (a Project handle with its own  *)
(* in-memory manifest), makes one call (add, remove, update or commit)    *)
(* step by step and exits; it may die at any step of its call.            *)
(*                                                                         *)
(* osc/wc/base.py, osc/wc/util.py and osc/wc/package.py are not part of   *)
(* the sources at hand: WorkingCopy, XMLTransactionState, the packages    *)
(* tracker, wc_lock and the Package black box are modelled from the       *)
(* written specification (sections 4.2, 4.3, 4.5, 4.6 and 6).             *)
(*                                                                         *)
(* Further specifications of the module: the classification on its own    *)
(* (SpecClassify), the working copy prj2 of the tests (SpecPrj2), the      *)
(* store files and the constructor (SpecStore), RemoteFile and             *)
(* RWRemoteFile of osc/remote.py (SpecRemote), the two rollback methods   *)
(* on a persisted record (SpecRollback), and the constructor statement by *)
(* statement next to init, add and remove (SpecOpen), and the commit      *)
(* classification with the answers of the packages (SpecCommitinfo).      *)
(***************************************************************************)
EXTENDS Integers, Sequences, FiniteSets, Bags, TLC

(***************************************************************************)
(* Bounds                                                                  *)
(***************************************************************************)
MaxPkgs == 2
MaxHandles == 2
MaxOps == 2
MaxCrashes == 1
MaxFailures == 1

\* remote files: length of the file, stream_bufsize, calls on one object
MaxLen == 4
MaxBuf == 2
MaxCalls == 3

PkgNames == <<"a", "b", "c", "d">>
Pkgs == {PkgNames[i] : i \in 1..MaxPkgs}

(***************************************************************************)
(* Sequence helpers (python list operations)                               *)
(***************************************************************************)
Contains(s, x) == \E i \in 1..Len(s) : s[i] = x

Elems(s) == {s[i] : i \in 1..Len(s)}

\* list.remove(x): drops the first occurrence of x
ListRemove(s, x) ==
    IF ~Contains(s, x) THEN s
    ELSE LET i == CHOOSE k \in 1..Len(s) :
                     s[k] = x /\ \A j \in 1..(k - 1) : s[j] # x
         IN  SubSeq(s, 1, i - 1) \o SubSeq(s, i + 1, Len(s))

\* [p for p in s if p in sel]
Intersect(s, sel) == SelectSeq(s, LAMBDA p : Contains(sel, p))

\* the packages of S in the order of PkgNames
Ordered(S) == SelectSeq([i \in 1..MaxPkgs |-> PkgNames[i]], LAMBDA p : p \in S)

(***************************************************************************)
(* Transaction phases and kinds                                            *)
(***************************************************************************)
STATE_PREPARE == "PREPARE"
STATE_UPDATING == "UPDATING"
STATE_TRANSFER == "TRANSFER"
STATE_COMMITTING == "COMMITTING"

ListNames == {"candidates", "unchanged", "added", "deleted", "modified",
              "conflicted"}

EmptyInfo == [l \in ListNames |-> <<>>]

\* entrystates value of a package no processed call has recorded
Unset == "unset"
\* python None as the new state of a processed package
None == "None"

NoStates == [p \in Pkgs |-> Unset]

\* no transaction record on disk (read_state returns None)
NoTrans == [name |-> "none", state |-> "none", info |-> EmptyInfo,
            entrystates |-> NoStates, states |-> NoStates]

(***************************************************************************)
(* State                                                                   *)
(***************************************************************************)
VARIABLES
    initialised,  \* the store directory exists (wc_init has run)
    manifest,     \* .osc/_packages: sequence of [name, state]
    trans,        \* .osc/_transaction: the transaction record or NoTrans
    pkgdir,       \* <wc>/<pkg>: "none", "dir", "wc", "wcu"
    extstore,     \* set of packages with .osc/data/<pkg>
    scratch,      \* set of packages with <txloc>/<pkg>
    remote,       \* remote package listing (sequence of names)
    lock,         \* the project lock is held
    waiting,      \* bag of the self._packages of the handles that are
                  \* open and have not started their call
    pc,           \* position of the call in progress, "idle" if none
    packages,     \* self._packages of the handle whose call is in progress
    cur,          \* the call in progress
    last,         \* outcome of the call that ended last
    wlog,         \* the last write to the manifest or the record
    crashed,      \* the call that was running when a process died
    expect,       \* manifest an uninterrupted run of the transaction leaves
    addwork,      \* per package: how often update's add work was issued
    nops, ncrash, nfail,
    store,        \* .osc/_project, _apiurl, _packages and data: the files
    rfile,        \* a RemoteFile or RWRemoteFile object of osc/remote.py
    unfinished,   \* packages whose checkout into <txloc>/<pkg> was begun
                  \* and did not finish
    opening,      \* the Project object a process is constructing
    sent,         \* per package: how often its commit() was issued by
                  \* the commit in progress or, after it died, by that
                  \* commit and its re-run
    inited        \* per package: the arguments of the last Package.init

diskvars == <<initialised, manifest, trans, pkgdir, extstore, scratch, remote>>
vars == <<initialised, manifest, trans, pkgdir, extstore, scratch, remote,
          lock, waiting, pc, packages, cur, last, wlog, crashed, expect,
          addwork,
          nops, ncrash, nfail, store, rfile, unfinished, opening, sent,
          inited>>

\* bookkeeping no engine step but process death and the add work touches
ghosts == <<crashed, expect, addwork, ncrash>>

\* everything an observer of the file system and of the server can see
Disk == [manifest |-> manifest, trans |-> trans, pkgdir |-> pkgdir,
         extstore |-> extstore, scratch |-> scratch, remote |-> remote]

NoDisk == [manifest |-> <<>>, trans |-> NoTrans,
           pkgdir |-> [p \in Pkgs |-> "none"],
           extstore |-> {}, scratch |-> {}, remote |-> <<>>]

\* the call in progress: its arguments, the work-list of the loop it is
\* in, the lists its classification returned, whether a package refused
\* (is_updateable or is_commitable answered False), whether it began the
\* transaction itself, whether it repeats the call of a process that died,
\* the record as the constructor, processed or clear_info wrote it last,
\* the disk as it was when the call took the lock, and the answers the
\* packages gave to a classification called on its own, and the events it
\* has passed to the notifier
NoCur == [op |-> "none", sel |-> <<>>, pkg |-> "", work |-> <<>>,
          info |-> EmptyInfo, refused |-> FALSE, fresh |-> FALSE,
          answers |-> <<>>, events |-> <<>>,
          rerun |-> FALSE, saved |-> NoTrans, before |-> NoDisk]

\* the call that ended last: what it returned or raised (err, arg), where
\* (pos, work) and with which recorded entry states (es)
NoLast == [op |-> "none", sel |-> <<>>, pkg |-> "",
           err |-> "none", arg |-> <<>>, raw |-> <<>>, pos |-> "idle",
           work |-> <<>>, events |-> <<>>,
           info |-> EmptyInfo, refused |-> FALSE, es |-> NoStates,
           fresh |-> FALSE, rerun |-> FALSE, saved |-> NoTrans,
           before |-> NoDisk]

\* no object of osc/remote.py. A RemoteFile: its stream_bufsize, the length
\* of the remote file, the bytes read from the response so far (fpos), the
\* size argument of write_to (arg), size and rsize of __iter__, the length
\* of the data read last, the bytes written to dest, the position of
\* write_to (pc). An RWRemoteFile: append, whether _sio is set (sio), the
\* file was fetched, write was invoked (wrote), close was called, the
\* write-back request was sent (wb), what close raised (err), and the
\* number of calls made.
NoFile == [kind |-> "none", stream_bufsize |-> 0, length |-> 0, fpos |-> 0,
           arg |-> 0, size |-> 0, rsize |-> 0, data |-> 0, dest |-> 0,
           pc |-> "new", append |-> FALSE, sio |-> FALSE,
           fetched |-> FALSE, wrote |-> FALSE, closed |-> FALSE,
           wb |-> FALSE, err |-> "none", ncalls |-> 0]

NoLog == [op |-> "none", held |-> TRUE, touched |-> {}]

\* no constructor in progress. A constructor in progress: the statement it
\* is at, the attributes it has set (got) and their values
NoOpening == [at |-> "none", got |-> {}, apiurl |-> "", name |-> ""]

\* no commit() of a package issued and no commit begun; phase is "call"
\* from the moment a commit is entered, "crashed" once its process has
\* died, "rerun" from the moment the next commit is entered
NoSent == [n |-> [p \in Pkgs |-> 0], phase |-> "none"]

\* Package.init was not called for the package
NoIdentity == [project |-> "", name |-> "", apiurl |-> ""]

\* the call of the process that died: its arguments, the record it left
\* (state, lists, entry states) and the package it was working on
NoCrash == [op |-> "none", sel |-> <<>>, between |-> FALSE,
            entrystates |-> NoStates, info |-> EmptyInfo,
            state |-> "none", pkg |-> ""]

(***************************************************************************)
(* Packages manifest (the tracker behind self._packages)                   *)
(***************************************************************************)
\* Project.packages
packages_(m) == [i \in 1..Len(m) |-> m[i].name]

Tracked(m, pkg) == \E i \in 1..Len(m) : m[i].name = pkg

\* self._packages.find(pkg).get('state')
StateOf(m, pkg) == m[CHOOSE i \in 1..Len(m) : m[i].name = pkg].state

\* state of pkg in m, "-" if m has no entry for it
EntryOf(m, pkg) == IF Tracked(m, pkg) THEN StateOf(m, pkg) ELSE "-"

tracker_add(m, pkg, st) == Append(m, [name |-> pkg, state |-> st])

tracker_remove(m, pkg) == SelectSeq(m, LAMBDA e : e.name # pkg)

tracker_set(m, pkg, st) ==
    [i \in 1..Len(m) |->
        IF m[i].name = pkg THEN [m[i] EXCEPT !.state = st] ELSE m[i]]

RECURSIVE MergeFrom(_, _, _)
MergeFrom(m, es, i) ==
    IF i > MaxPkgs THEN m
    ELSE LET p == PkgNames[i]
             m1 == IF es[p] = Unset THEN m
                   ELSE IF es[p] = None THEN tracker_remove(m, p)
                   ELSE IF Tracked(m, p) THEN tracker_set(m, p, es[p])
                   ELSE tracker_add(m, p, es[p])
         IN  MergeFrom(m1, es, i + 1)

\* self._packages.merge(entrystates)
tracker_merge(m, es) == MergeFrom(m, es, 1)

(***************************************************************************)
(* Status and package handles                                              *)
(***************************************************************************)
\* os.path.exists(<wc>/<pkg>)
Exists(d, pkg) == d[pkg] # "none"

\* os.path.isdir(<wc>/<pkg>)
IsDir(d, pkg) == d[pkg] \in {"dir", "wc", "wcu"}

\* wc_is_package(<wc>/<pkg>)
wc_is_package(d, pkg) == d[pkg] \in {"wc", "wcu"}

\* a status that reports every missing directory as '!'
_status_missing(m, d, pkg) ==
    IF ~Tracked(m, pkg) THEN "?"
    ELSE IF ~Exists(d, pkg) THEN "!" ELSE StateOf(m, pkg)

\* Project._status
_status(m, d, pkg) ==
    IF ~Tracked(m, pkg) THEN "?"
    ELSE LET st == StateOf(m, pkg)
         IN  IF ~Exists(d, pkg) /\ st # "D" THEN "!" ELSE st

\* Project.package: FALSE stands for the None it returns
package(m, d, pkg) ==
    LET st == _status(m, d, pkg)
    IN  ~(st \in {"!", "?"} \/ (st = "D" /\ ~wc_is_package(d, pkg)))

(***************************************************************************)
(* Store files: a path of the store is a record, text is the content of a  *)
(* file as a sequence of pieces; the content of a _packages file that      *)
(* parses is the variable manifest                                         *)
(***************************************************************************)
StoreFiles == <<"_project", "_apiurl", "_packages", "data">>

\* a store path that does not exist
NoPath == [exists |-> FALSE, xml |-> FALSE, text |-> <<>>]

\* a file with this content (the data directory: no content)
TextFile(text) == [exists |-> TRUE, xml |-> FALSE, text |-> text]

\* the _packages file with a manifest that parses
XmlFile == [exists |-> TRUE, xml |-> TRUE, text |-> <<>>]

NoStore == [f \in Elems(StoreFiles) |-> NoPath]

\* wc_write_project, wc_write_apiurl: the value and a newline
Line(v) == <<v, "\n">>

\* wc_read_project, wc_read_apiurl: the content without the newline
ReadLine(text) ==
    LET t == IF text # <<>> /\ text[Len(text)] = "\n"
             THEN SubSeq(text, 1, Len(text) - 1) ELSE text
    IN  IF t = <<>> THEN "" ELSE t[1]

\* a store whose name and url files changed places
NewStore_swapped(project, apiurl) ==
    [f \in Elems(StoreFiles) |->
        IF f = "_project" THEN TextFile(Line(apiurl))
        ELSE IF f = "_apiurl" THEN TextFile(Line(project))
        ELSE IF f = "_packages" THEN XmlFile
        ELSE TextFile(<<>>)]

\* what Project.init writes: wc_init, wc_write_project, wc_write_apiurl,
\* wc_write_packages(path, '<packages/>')
NewStore(project, apiurl) ==
    [f \in Elems(StoreFiles) |->
        IF f = "_project" THEN TextFile(Line(project))
        ELSE IF f = "_apiurl" THEN TextFile(Line(apiurl))
        ELSE IF f = "_packages" THEN XmlFile
        ELSE TextFile(<<>>)]

\* wc_read_packages(path, raw=True): the content of _packages
PackagesText(s, m) ==
    IF ~s["_packages"].xml THEN s["_packages"].text
    ELSE IF m = <<>> THEN <<"<packages/>", "\n">>
    ELSE <<"<packages>", "</packages>", "\n">>

\* missing_storepaths(path, '_project', '_apiurl', '_packages') followed by
\* missing_storepaths(path, 'data', dirs=True)
missing_storepaths(s) == SelectSeq(StoreFiles, LAMBDA f : ~s[f].exists)

\* Project.wc_check: (missing, xml_data); the empty text stands for ''
wc_check(s) ==
    LET missing == missing_storepaths(s)
    IN  IF Contains(missing, "_packages")
        THEN [missing |-> missing, xml_data |-> <<>>]
        ELSE IF ~s["_packages"].xml
        THEN [missing |-> missing, xml_data |-> s["_packages"].text]
        ELSE [missing |-> missing, xml_data |-> <<>>]

\* the project names and urls init is called with
Projects == {"openSUSE:Tools", "prj1"}

Apiurls == {"https://api.opensuse.org", "http://localhost"}

\* the store of the fixture working copy
FixtureStore == NewStore("prj2", "http://localhost")

(***************************************************************************)
(* Initial states: a path that is no working copy yet, or a project        *)
(* working copy as checked out in which every package is of one of the     *)
(* kinds below (manifest state, directory, presence in the remote          *)
(* listing).                                                               *)
(***************************************************************************)
Fixtures ==
    << \* on the server only: update adds it
       [st |-> "-", dir |-> "none", remote |-> TRUE],
       \* a plain local directory: add accepts it
       [st |-> "-", dir |-> "dir", remote |-> FALSE],
       \* checked out, on the server
       [st |-> " ", dir |-> "wc", remote |-> TRUE],
       \* checked out, gone from the server: update deletes it
       [st |-> " ", dir |-> "wc", remote |-> FALSE],
       \* checked out, directory removed by hand: status '!'
       [st |-> " ", dir |-> "none", remote |-> TRUE],
       \* added locally: commit adds it
       [st |-> "A", dir |-> "wc", remote |-> FALSE],
       \* marked for deletion: commit deletes it
       [st |-> "D", dir |-> "wc", remote |-> TRUE],
       \* checked out, an untracked file put in, gone from the server
       [st |-> " ", dir |-> "wcu", remote |-> FALSE] >>

\* one kind per package; the names are interchangeable, so the kinds are
\* taken in the order of Fixtures along PkgNames
FixtureChoices ==
    {k \in [1..MaxPkgs -> 1..Len(Fixtures)] :
        \A i \in 1..(MaxPkgs - 1) : k[i] <= k[i + 1]}

FixtureOf(k) == [p \in Pkgs |->
    Fixtures[k[CHOOSE i \in 1..MaxPkgs : PkgNames[i] = p]]]

FixtureManifest(fx) ==
    LET t == Ordered({p \in Pkgs : fx[p].st # "-"})
    IN  [i \in 1..Len(t) |-> [name |-> t[i], state |-> fx[t[i]].st]]

InitCommon ==
    /\ trans = NoTrans
    /\ scratch = {}
    /\ lock = FALSE
    /\ waiting = EmptyBag
    /\ pc = "idle"
    /\ packages = <<>>
    /\ cur = NoCur
    /\ last = NoLast
    /\ wlog = NoLog
    /\ crashed = NoCrash
    /\ expect = <<>>
    /\ addwork = [p \in Pkgs |-> 0]
    /\ nops = 0
    /\ ncrash = 0
    /\ nfail = 0
    /\ unfinished = {}
    /\ opening = NoOpening
    /\ sent = NoSent
    /\ inited = [p \in Pkgs |-> NoIdentity]

Init ==
    /\ InitCommon
    /\ rfile = NoFile
    /\ \/ /\ initialised = FALSE
          /\ store = NoStore
          /\ manifest = <<>>
          /\ pkgdir = [p \in Pkgs |-> "none"]
          /\ extstore = {}
          /\ remote = Ordered(Pkgs)
       \/ /\ initialised = TRUE
          /\ store = FixtureStore
          /\ \E k \in FixtureChoices :
             LET fx == FixtureOf(k)
             IN /\ manifest = FixtureManifest(fx)
                /\ pkgdir = [p \in Pkgs |-> fx[p].dir]
                /\ extstore = {p \in Pkgs : fx[p].st # "-"}
                /\ remote = Ordered({p \in Pkgs : fx[p].remote})

(***************************************************************************)
(* Lock, call entry and call exit                                          *)
(***************************************************************************)
\* wc_lock(path).__enter__: blocking, exclusive
wc_lock == lock = FALSE /\ lock' = TRUE

\* the record of a write to the manifest or to the transaction record
Logged(op, touched) ==
    wlog' = [op |-> op, held |-> lock, touched |-> touched]

\* number of processes that have the working copy open
Open == BagCardinality(waiting) + (IF pc = "idle" THEN 0 ELSE 1)

\* the handle h enters a public method
Enter(h, op, sel, pkg, pos) ==
    /\ pc = "idle"
    /\ nops < MaxOps
    /\ nops' = nops + 1
    /\ waiting' = waiting (-) SetToBag({h})
    /\ packages' = h.packages
    /\ pc' = pos
    /\ cur' = [NoCur EXCEPT !.op = op, !.sel = sel, !.pkg = pkg,
                            !.before = Disk,
                            !.rerun = (crashed.op = op /\ crashed.sel = sel)]
    /\ last' = NoLast

\* the method returns (err = "ok") or raises err(arg); leaving the with
\* block releases the lock on every exit path; the process exits
LeaveEvents(err, arg, info, refused, events) ==
    /\ pc' = "idle"
    /\ packages' = <<>>
    /\ cur' = NoCur
    /\ lock' = FALSE
    /\ UNCHANGED waiting
    /\ last' = [op |-> cur.op, sel |-> cur.sel,
                pkg |-> cur.pkg, err |-> err, arg |-> arg, raw |-> <<>>,
                pos |-> pc, work |-> cur.work, events |-> events,
                info |-> info, refused |-> refused,
                es |-> trans.entrystates, fresh |-> cur.fresh,
                rerun |-> cur.rerun, saved |-> cur.saved,
                before |-> cur.before]

LeaveWith(err, arg, info, refused) ==
    LeaveEvents(err, arg, info, refused, cur.events)

\* an exit that releases the lock on return only, not when it raises
Leave_locked(err, arg) ==
    /\ pc' = "idle"
    /\ packages' = <<>>
    /\ cur' = NoCur
    /\ lock' = (err # "ok")
    /\ UNCHANGED waiting
    /\ last' = [op |-> cur.op, sel |-> cur.sel,
                pkg |-> cur.pkg, err |-> err, arg |-> arg, raw |-> <<>>,
                pos |-> pc, work |-> cur.work, events |-> cur.events,
                info |-> cur.info, refused |-> cur.refused,
                es |-> trans.entrystates, fresh |-> cur.fresh,
                rerun |-> cur.rerun, saved |-> cur.saved,
                before |-> cur.before]

Leave(err, arg) == LeaveWith(err, arg, cur.info, cur.refused)

(***************************************************************************)
(* Project.init and Project.__init__                                       *)
(***************************************************************************)
\* the fields of the object Project.__init__ constructs
Handle(s, m) ==
    [name |-> ReadLine(s["_project"].text),
     apiurl |-> ReadLine(s["_apiurl"].text),
     packages |-> m]

\* Project.init: creates the store and writes the empty manifest (no lock
\* is taken), then constructs the handle
init(project, apiurl) ==
    /\ ~initialised
    /\ initialised' = TRUE
    /\ store' = NewStore(project, apiurl)
    /\ manifest' = <<>>
    /\ Logged("init", {})
    /\ waiting' = waiting (+) SetToBag({Handle(store', manifest')})
    /\ last' = [NoLast EXCEPT !.op = "init", !.arg = <<project, apiurl>>]
    /\ UNCHANGED <<trans, pkgdir, extstore, scratch, remote, lock, pc,
                   packages, cur, ghosts, nops, nfail, rfile, unfinished,
                   opening, sent, inited>>

\* Project.__init__: wc_check, then the manifest is read under the lock
Project ==
    /\ LET c == wc_check(store)
       IN  IF c.missing # <<>> \/ c.xml_data # <<>>
           THEN /\ last' = [NoLast EXCEPT !.op = "Project",
                                          !.err = "WCInconsistentError",
                                          !.arg = c.missing,
                                          !.raw = c.xml_data]
                /\ UNCHANGED waiting
           ELSE /\ lock = FALSE
                /\ IF ~store["_packages"].xml
                   THEN \* wc_read_packages raises inside the with block
                        /\ last' = [NoLast EXCEPT !.op = "Project",
                                                  !.err = "ValueError"]
                        /\ UNCHANGED waiting
                   ELSE /\ Open < MaxHandles
                        /\ waiting' = waiting
                                         (+) SetToBag({Handle(store, manifest)})
                        /\ UNCHANGED last
    /\ UNCHANGED <<diskvars, lock, pc, packages, cur, wlog, ghosts,
                   nops, nfail>>
    /\ UNCHANGED <<store, rfile, unfinished, opening, sent, inited>>

(***************************************************************************)
(* Project.add and Project.remove                                          *)
(***************************************************************************)
\* Package.init(path, project, name, api_url, external_store): the
\* identity the package working copy is initialised with
Package_init(project, name, api_url) ==
    [project |-> project, name |-> name, apiurl |-> api_url]

\* an add that records the package as checked out
add_entry_blank(m, pkg) == tracker_add(m, pkg, " ")

\* self._packages.add(pkg, state='A')
add_entry(m, pkg) == tracker_add(m, pkg, "A")

\* add(pkg) up to the with statement
add_enter(pkg) ==
    /\ \E m \in BagToSet(waiting) : Enter(m, "add", <<>>, pkg, "add")
    /\ wc_lock
    /\ UNCHANGED <<diskvars, wlog, ghosts, nfail>>
    /\ UNCHANGED <<store, rfile, unfinished, opening, sent, inited>>

\* body of add
add ==
    /\ pc = "add"
    /\ LET pkg == cur.pkg
           m == packages
       IN  IF _status(m, pkgdir, pkg) # "?" \/ ~IsDir(pkgdir, pkg)
              \/ wc_is_package(pkgdir, pkg)
           THEN /\ Leave("ValueError", <<>>)
                /\ UNCHANGED <<diskvars, wlog, inited>>
           ELSE /\ extstore' = extstore \cup {pkg}
                /\ pkgdir' = [pkgdir EXCEPT ![pkg] = "wcu"]
                /\ inited' = [inited EXCEPT ![pkg] =
                      Package_init(pkg, Handle(store, m).name,
                                   Handle(store, m).apiurl)]
                /\ manifest' = add_entry(m, pkg)
                /\ Logged("add", {pkg})
                /\ Leave("ok", <<>>)
                /\ UNCHANGED <<initialised, trans, scratch, remote>>
    /\ UNCHANGED <<ghosts, nops, nfail>>
    /\ UNCHANGED <<store, rfile, unfinished, opening, sent>>

\* remove that writes the status it computed for a missing package
remove_entry_status(m, pkg, st) ==
    IF st = "A" THEN tracker_remove(m, pkg)
    ELSE tracker_set(m, pkg, IF st = "!" THEN "!" ELSE "D")

\* a remove that marks every tracked package
remove_entry_mark(m, pkg, st) == tracker_set(m, pkg, "D")

\* remove: the entry is dropped if its status is 'A', else marked 'D'
remove_entry(m, pkg, st) ==
    IF st = "A" THEN tracker_remove(m, pkg) ELSE tracker_set(m, pkg, "D")

\* remove(pkg) up to the with statement
remove_enter(pkg) ==
    /\ \E m \in BagToSet(waiting) : Enter(m, "remove", <<>>, pkg, "remove")
    /\ wc_lock
    /\ UNCHANGED <<diskvars, wlog, ghosts, nfail>>
    /\ UNCHANGED <<store, rfile, unfinished, opening, sent, inited>>

\* body of remove
remove ==
    /\ pc = "remove"
    /\ LET pkg == cur.pkg
           m == packages
           st == _status(m, pkgdir, pkg)
       IN  IF st = "?"
           THEN /\ Leave("ValueError", <<>>)
                /\ UNCHANGED <<manifest, wlog>>
           ELSE /\ manifest' = remove_entry(m, pkg, st)
                /\ Logged("remove", {pkg})
                /\ Leave("ok", <<>>)
    /\ UNCHANGED <<initialised, trans, pkgdir, extstore, scratch, remote,
                   ghosts, nops, nfail>>
    /\ UNCHANGED <<store, rfile, unfinished, opening, sent, inited>>

(***************************************************************************)
(* Transaction record (XMLTransactionState and its two subclasses)         *)
(***************************************************************************)
\* XMLTransactionState.__init__ without xml_data: a fresh record
NewTrans(name, initial_state, info, states) ==
    [name |-> name, state |-> initial_state, info |-> info,
     entrystates |-> NoStates, states |-> states]

\* XMLTransactionState.processed: the package leaves its work-list and its
\* new manifest state is recorded
XMLTransactionState_processed(t, pkg, new_state) ==
    [t EXCEPT !.info = [l \in ListNames |-> ListRemove(t.info[l], pkg)],
              !.entrystates = [t.entrystates EXCEPT ![pkg] = new_state]]

\* XMLTransactionState.clear_info: the entry is discarded from the lists
clear_info(t, entry) ==
    [t EXCEPT !.info = [l \in ListNames |-> ListRemove(t.info[l], entry)]]

\* ProjectUpdateState.processed
ProjectUpdateState_processed(t, pkg, new_state) ==
    XMLTransactionState_processed([t EXCEPT !.state = STATE_PREPARE],
                                  pkg, new_state)

\* ProjectCommitState.processed
ProjectCommitState_processed(t, pkg, new_state) ==
    XMLTransactionState_processed([t EXCEPT !.state = STATE_TRANSFER],
                                  pkg, new_state)

\* a rollback that erases the record whatever its phase
ProjectUpdateState_rollback_any(t) ==
    IF t.name # "update" THEN [ret |-> "ValueError", trans |-> t]
    ELSE [ret |-> "True", trans |-> NoTrans]

\* ProjectUpdateState.rollback: ret is what the call returns or raises,
\* trans the record it leaves on disk
ProjectUpdateState_rollback(t) ==
    IF t.name # "update" THEN [ret |-> "ValueError", trans |-> t]
    ELSE IF t.state = STATE_PREPARE THEN [ret |-> "True", trans |-> NoTrans]
    ELSE [ret |-> "False", trans |-> t]

\* ProjectCommitState.rollback: the name ustate is bound nowhere
ProjectCommitState_rollback(t) ==
    IF t.name # "commit" THEN [ret |-> "ValueError", trans |-> t]
    ELSE [ret |-> "NameError", trans |-> t]

\* WorkingCopy.is_updateable(rollback=True): an outstanding commit is
\* rolled back if it can be
is_updateable(t) ==
    IF t.name \in {"none", "update"} THEN [ret |-> "True", trans |-> t]
    ELSE ProjectCommitState_rollback(t)

\* WorkingCopy.is_commitable(rollback=True)
is_commitable(t) ==
    IF t.name \in {"none", "commit"} THEN [ret |-> "True", trans |-> t]
    ELSE ProjectUpdateState_rollback(t)

\* the answers the package black box gives to is_updateable (or to
\* is_commitable, is_modified): one per package a handle exists for
Answers(m, d) ==
    {f \in [Pkgs -> BOOLEAN] : \A p \in Pkgs : ~package(m, d, p) => f[p]}

\* some package the call asks answers False
Refused(m, d, sel, f) ==
    \E p \in Pkgs : /\ package(m, d, p) /\ ~f[p]
                     /\ (sel = <<>> \/ Contains(sel, p))

(***************************************************************************)
(* Update classification                                                   *)
(***************************************************************************)
\* the candidate p that forgot its removal from candidates
MoveToConflicted_kept(acc, p) == [acc EXCEPT !.conf = Append(@, p)]

\* conflicted.append(package); candidates.remove(package)
MoveToConflicted(acc, p) ==
    [acc EXCEPT !.conf = Append(@, p), !.cand = ListRemove(@, p)]

\* the re-scan of candidates: acc = [cand, conf, err]
RECURSIVE ScanCandidates(_, _, _, _, _)
ScanCandidates(todo, acc, m, d, upd) ==
    IF todo = <<>> \/ acc.err # "ok" THEN acc
    ELSE LET p == Head(todo)
         IN  IF _status(m, d, p) \in {"A", "!"}
             THEN ScanCandidates(Tail(todo), MoveToConflicted(acc, p),
                                 m, d, upd)
             ELSE IF ~package(m, d, p)
             THEN [acc EXCEPT !.err = "AttributeError"]
             ELSE IF ~upd[p]
             THEN ScanCandidates(Tail(todo), MoveToConflicted(acc, p),
                                 m, d, upd)
             ELSE ScanCandidates(Tail(todo), acc, m, d, upd)

\* the re-scan of added: acc = [added, conf]
RECURSIVE ScanAdded(_, _, _, _)
ScanAdded(todo, acc, m, d) ==
    IF todo = <<>> THEN acc
    ELSE LET p == Head(todo)
         IN  IF _status(m, d, p) = "?" /\ Exists(d, p)
             THEN ScanAdded(Tail(todo),
                      [acc EXCEPT !.conf = Append(@, p),
                                  !.added = ListRemove(@, p)], m, d)
             ELSE ScanAdded(Tail(todo), acc, m, d)

\* Project._calculate_updateinfo; R is the remote listing, sel the
\* *packages arguments, upd[p] the answer of p's is_updateable()
_calculate_updateinfo(m, d, R, sel, upd) ==
    LET local_pkgs == packages_(m)
        candidates0 == SelectSeq(R, LAMBDA p : Contains(local_pkgs, p))
        added0 == SelectSeq(R, LAMBDA p : ~Contains(local_pkgs, p))
        NotUpdateable(p) == package(m, d, p) /\ ~upd[p]
        conflicted0 == SelectSeq(local_pkgs, NotUpdateable)
        deleted == SelectSeq(local_pkgs,
                       LAMBDA p : /\ ~NotUpdateable(p)
                                  /\ _status(m, d, p) # "A"
                                  /\ ~Contains(R, p))
        c == ScanCandidates(candidates0,
                 [cand |-> candidates0, conf |-> conflicted0, err |-> "ok"],
                 m, d, upd)
        a == ScanAdded(added0, [added |-> added0, conf |-> c.conf], m, d)
        F(l) == IF sel # <<>> THEN Intersect(l, sel) ELSE l
    IN  [err |-> c.err,
         info |-> [EmptyInfo EXCEPT !.candidates = F(c.cand),
                                    !.added = F(a.added),
                                    !.deleted = F(deleted),
                                    !.conflicted = F(a.conf)]]

\* dict([(p, self._status(p)) for p in self.packages()])
prior_states(m, d) ==
    [p \in Pkgs |-> IF Tracked(m, p) THEN _status(m, d, p) ELSE Unset]

(***************************************************************************)
(* Driving a transaction: positions                                        *)
(***************************************************************************)
\* a driver that removes the deleted packages first
PhaseList_deletes_first(kind, k) ==
    IF kind = "update" THEN <<"deleted", "added", "candidates">>[k]
    ELSE <<"deleted", "added", "modified">>[k]

\* _update: adds, deletes, candidates; _commit: adds, deletes, modified
PhaseList(kind, k) ==
    IF kind = "update" THEN <<"added", "deleted", "candidates">>[k]
    ELSE <<"added", "deleted", "modified">>[k]

PhasePc(kind, k) ==
    IF kind = "update" THEN <<"adds", "dels", "cands">>[k]
    ELSE <<"cadds", "cdels", "cmods">>[k]

MergePc(kind) == IF kind = "update" THEN "umerge" ELSE "cmerge"

\* the first loop from phase k on that has a package to process; each
\* loop reads its list from the record when it starts
RECURSIVE NextPos(_, _, _)
NextPos(t, kind, k) ==
    IF k > 3 THEN [pc |-> MergePc(kind), work |-> <<>>, k |-> 4]
    ELSE IF t.info[PhaseList(kind, k)] # <<>>
         THEN [pc |-> PhasePc(kind, k), work |-> t.info[PhaseList(kind, k)],
               k |-> k]
         ELSE NextPos(t, kind, k + 1)

\* position after the head of the work-list of loop k has been processed
AfterProcessed(t, kind, k, rest) ==
    IF rest # <<>> THEN [pc |-> PhasePc(kind, k), work |-> rest, k |-> k]
    ELSE NextPos(t, kind, k + 1)

\* the events of the notifier: begin(kind, info), finished(kind,
\* aborted=False) and processed(filename, None) for the one tracked file a
\* package working copy is taken to hold
begin(kind) == [ev |-> "begin", arg |-> kind]
finished(kind) == [ev |-> "finished", arg |-> kind]
processed(filename) == [ev |-> "processed", arg |-> filename]

\* the call goes on with the head of the work-list pos.work at pos.pc,
\* having passed the events evs to the notifier
GotoEmit(pos, evs) ==
    /\ pc' = pos.pc
    /\ cur' = [cur EXCEPT !.work = pos.work, !.saved = trans',
                          !.events = @ \o evs]
    /\ UNCHANGED <<lock, last, packages, waiting>>

Goto(pos) == GotoEmit(pos, <<>>)

\* the call goes on with the same package at pos, having passed evs
StepEmit(pos, evs) ==
    /\ pc' = pos
    /\ cur' = [cur EXCEPT !.events = @ \o evs]
    /\ UNCHANGED <<lock, last, packages, waiting>>

\* the call goes on with the same package at pc
Step(pos) ==
    /\ pc' = pos
    /\ UNCHANGED <<cur, lock, last, packages, waiting>>

DrivingPcs == {"adds", "adds_init", "adds_state", "adds_fixup",
               "adds_processed", "dels", "dels_remove", "dels_processed",
               "cands", "cands_processed",
               "cadds", "cdels", "cmods", "cmods_state", "cmods_processed"}

\* handle h is between two processed calls of its transaction
Between ==
    /\ pc \in DrivingPcs
    /\ \E p \in Pkgs : trans.entrystates[p] # Unset
    /\ cur.fresh
    /\ cur.before.manifest = packages

\* the manifest a run of the transaction with lists info leaves when
\* nothing interrupts it
ExpectedManifest(m, info) ==
    tracker_merge(m,
        [p \in Pkgs |->
            IF Contains(info.added, p) \/ Contains(info.candidates, p)
               \/ Contains(info.modified, p) THEN " "
            ELSE IF Contains(info.deleted, p) THEN None
            ELSE Unset])

(***************************************************************************)
(* Project.update                                                          *)
(***************************************************************************)
Selections == {<<>>} \cup {<<p>> : p \in Pkgs}

\* update(*packages) up to the with statement
update_enter(sel) ==
    /\ \E m \in BagToSet(waiting) : Enter(m, "update", sel, "", "update")
    /\ wc_lock
    /\ UNCHANGED <<diskvars, wlog, ghosts, nfail>>
    /\ UNCHANGED <<store, rfile, unfinished, opening, sent, inited>>

\* body of update up to the call of _update
update ==
    /\ pc = "update"
    /\ LET ustate == trans
           r == is_updateable(trans)
       IN  IF r.ret \in {"NameError", "ValueError"}
           THEN /\ Leave(r.ret, <<>>)
                /\ UNCHANGED <<trans, wlog, expect>>
           ELSE IF r.ret = "False"
           THEN /\ Leave("PendingTransactionError", <<"commit">>)
                /\ UNCHANGED <<trans, wlog, expect>>
           ELSE IF ustate.name # "none" /\ ustate.state = STATE_UPDATING
           THEN \* _clear_uinfo, then _update(ustate)
                LET info == r.trans.info
                    entry == IF info.candidates # <<>> THEN info.candidates[1]
                             ELSE IF info.added # <<>> THEN info.added[1]
                             ELSE IF info.deleted # <<>> THEN info.deleted[1]
                             ELSE IF info.conflicted # <<>>
                                  THEN info.conflicted[1]
                             ELSE ""
                    t == clear_info(r.trans, entry)
                    pos == NextPos(t, "update", 1)
                IN  /\ trans' = t
                    /\ Logged("update", {})
                    /\ pc' = pos.pc
                    /\ cur' = [cur EXCEPT !.work = pos.work,
                                          !.info = t.info,
                                          !.saved = t]
                    /\ UNCHANGED <<lock, last, packages, waiting, expect>>
           ELSE \E upd \in Answers(packages, pkgdir) :
                LET u == _calculate_updateinfo(packages, pkgdir, remote,
                                               cur.sel, upd)
                    t == NewTrans("update", STATE_PREPARE, u.info,
                                  prior_states(packages, pkgdir))
                    pos == NextPos(t, "update", 1)
                    ref == Refused(packages, pkgdir, cur.sel, upd)
                IN  IF u.err # "ok"
                    THEN /\ LeaveWith(u.err, <<>>, EmptyInfo, ref)
                         /\ trans' = r.trans
                         /\ UNCHANGED <<wlog, expect>>
                    ELSE IF u.info.conflicted # <<>>
                    THEN /\ LeaveWith("FileConflictError", u.info.conflicted,
                                      u.info, ref)
                         /\ trans' = r.trans
                         /\ UNCHANGED <<wlog, expect>>
                    ELSE IF r.trans # NoTrans
                    THEN \* a record exists: a fresh one cannot be written
                         /\ LeaveEvents("ValueError", <<>>, u.info, ref,
                                        <<begin("prj_update")>>)
                         /\ trans' = r.trans
                         /\ UNCHANGED <<wlog, expect>>
                    ELSE /\ trans' = t
                         /\ Logged("update", {})
                         /\ pc' = pos.pc
                         /\ cur' = [cur EXCEPT !.work = pos.work,
                                               !.info = u.info,
                                               !.refused = ref,
                                               !.saved = t,
                                               !.fresh = TRUE,
                                               !.events =
                                                   <<begin("prj_update")>>]
                         /\ expect' = IF cur.rerun THEN expect
                                      ELSE ExpectedManifest(packages, u.info)
                         /\ UNCHANGED <<lock, last, packages, waiting>>
    /\ UNCHANGED <<initialised, manifest, pkgdir, extstore, scratch, remote,
                   crashed, addwork, nops, ncrash, nfail>>
    /\ UNCHANGED <<store, rfile, unfinished, opening, sent, inited>>

\* _perform_adds in PREPARE: os.mkdir(storedir)
perform_adds_mkdir ==
    /\ pc = "adds"
    /\ trans.state = STATE_PREPARE
    /\ LET p == Head(cur.work)
       IN  IF p \in extstore
           THEN /\ Leave("OSError", <<p>>)
                /\ UNCHANGED extstore
           ELSE /\ extstore' = extstore \cup {p}
                /\ Step("adds_init")
    /\ UNCHANGED <<initialised, manifest, trans, pkgdir, scratch, remote,
                   wlog, ghosts, nops, nfail>>
    /\ UNCHANGED <<store, rfile, unfinished, opening, sent, inited>>

\* _perform_adds in PREPARE: Package.init(tmp_dir, ...) and pkg.update()
perform_adds_init ==
    /\ pc = "adds_init"
    /\ LET p == Head(cur.work)
       IN  /\ scratch' = scratch \cup {p}
           /\ addwork' = [addwork EXCEPT ![p] = @ + 1]
           /\ inited' = [inited EXCEPT ![p] =
                 Package_init(Handle(store, packages).name, p,
                              Handle(store, packages).apiurl)]
           /\ \E fail \in BOOLEAN :
                 IF fail
                 THEN /\ nfail < MaxFailures
                      /\ nfail' = nfail + 1
                      /\ unfinished' = unfinished \cup {p}
                      /\ Leave("IOError", <<p>>)
                 ELSE /\ Step("adds_state")
                      /\ unfinished' = unfinished \ {p}
                      /\ UNCHANGED nfail
    /\ UNCHANGED <<initialised, manifest, trans, pkgdir, extstore, remote,
                   wlog, crashed, expect, nops, ncrash>>
    /\ UNCHANGED <<store, rfile, opening, sent>>

\* an add loop that goes on to the rename with the record left in PREPARE
perform_adds_state_kept ==
    /\ pc = "adds_state"
    /\ Step("adds_fixup")
    /\ UNCHANGED <<diskvars, wlog, ghosts, nops, nfail>>
    /\ UNCHANGED <<store, rfile, unfinished, opening, sent, inited>>

\* _perform_adds in PREPARE: ustate.state = STATE_UPDATING
perform_adds_state ==
    /\ pc = "adds_state"
    /\ trans' = [trans EXCEPT !.state = STATE_UPDATING]
    /\ Logged("update", {})
    /\ Step("adds_fixup")
    /\ UNCHANGED <<initialised, manifest, pkgdir, extstore, scratch, remote,
                   ghosts, nops, nfail>>
    /\ UNCHANGED <<store, rfile, unfinished, opening, sent, inited>>

\* _perform_adds: the scratch directory is moved to <wc>/<pkg>
perform_adds_fixup ==
    /\ \/ pc = "adds_fixup"
       \/ pc = "adds" /\ trans.state # STATE_PREPARE
    /\ LET p == Head(cur.work)
       IN  IF p \in scratch /\ Exists(pkgdir, p)
           THEN /\ Leave("OSError", <<p>>)
                /\ UNCHANGED <<pkgdir, scratch>>
           ELSE /\ IF p \in scratch
                   THEN /\ scratch' = scratch \ {p}
                        /\ pkgdir' = [pkgdir EXCEPT ![p] = "wc"]
                   ELSE UNCHANGED <<pkgdir, scratch>>
                /\ Step("adds_processed")
    /\ UNCHANGED <<initialised, manifest, trans, extstore, remote,
                   wlog, ghosts, nops, nfail>>
    /\ UNCHANGED <<store, rfile, unfinished, opening, sent, inited>>

\* _perform_adds: ustate.processed(package, ' ')
perform_adds_processed ==
    /\ pc = "adds_processed"
    /\ LET p == Head(cur.work)
           t == ProjectUpdateState_processed(trans, p, " ")
       IN  /\ trans' = t
           /\ Goto(AfterProcessed(t, "update", 1, Tail(cur.work)))
    /\ Logged("update", {})
    /\ UNCHANGED <<initialised, manifest, pkgdir, extstore, scratch, remote,
                   ghosts, nops, nfail>>
    /\ UNCHANGED <<store, rfile, unfinished, opening, sent, inited>>

\* Project._remove_wc_dir(package, notify=True): the events it passes
notified(m, d, pkg) ==
    IF package(m, d, pkg) THEN <<processed(pkg)>> ELSE <<>>

\* a removal that takes the directory with everything in it
_remove_wc_dir_rmtree(m, d, pkg) ==
    IF ~package(m, d, pkg) THEN d
    ELSE [d EXCEPT ![pkg] = "none"]

\* Project._remove_wc_dir: what it leaves of <wc>/<pkg>
_remove_wc_dir(m, d, pkg) ==
    IF ~package(m, d, pkg) THEN d
    ELSE [d EXCEPT ![pkg] = IF @ = "wc" THEN "none"
                            ELSE IF @ = "wcu" THEN "dir" ELSE @]

\* _perform_deletes: ustate.state = STATE_UPDATING, notifier.begin
perform_deletes_state ==
    /\ pc = "dels"
    /\ trans' = [trans EXCEPT !.state = STATE_UPDATING]
    /\ Logged("update", {})
    /\ StepEmit("dels_remove", <<begin("update")>>)
    /\ UNCHANGED <<initialised, manifest, pkgdir, extstore, scratch, remote,
                   ghosts, nops, nfail>>
    /\ UNCHANGED <<store, rfile, unfinished, opening, sent, inited>>

\* _perform_deletes: self._remove_wc_dir(package, notify=True)
perform_deletes_remove ==
    /\ pc = "dels_remove"
    /\ LET p == Head(cur.work)
       IN  \E fail \in BOOLEAN :
              IF fail
              THEN /\ nfail < MaxFailures
                   /\ nfail' = nfail + 1
                   /\ Leave("IOError", <<p>>)
                   /\ UNCHANGED <<pkgdir, extstore>>
              ELSE /\ pkgdir' = _remove_wc_dir(packages, pkgdir, p)
                   /\ extstore' = extstore \ {p}
                   /\ StepEmit("dels_processed",
                               notified(packages, pkgdir, p))
                   /\ UNCHANGED nfail
    /\ UNCHANGED <<initialised, manifest, trans, scratch, remote,
                   wlog, ghosts, nops>>
    /\ UNCHANGED <<store, rfile, unfinished, opening, sent, inited>>

\* _perform_deletes: ustate.processed(package, None), notifier.finished
perform_deletes_processed ==
    /\ pc = "dels_processed"
    /\ LET p == Head(cur.work)
           t == ProjectUpdateState_processed(trans, p, None)
       IN  /\ trans' = t
           /\ GotoEmit(AfterProcessed(t, "update", 2, Tail(cur.work)),
                       <<finished("update")>>)
    /\ Logged("update", {})
    /\ UNCHANGED <<initialised, manifest, pkgdir, extstore, scratch, remote,
                   ghosts, nops, nfail>>
    /\ UNCHANGED <<store, rfile, unfinished, opening, sent, inited>>

\* _perform_candidates: self.package(package) and pkg.update()
perform_candidates ==
    /\ pc = "cands"
    /\ LET p == Head(cur.work)
       IN  IF ~package(packages, pkgdir, p)
           THEN /\ Leave("ValueError", <<p>>)
                /\ UNCHANGED nfail
           ELSE \E fail \in BOOLEAN :
                  IF fail
                  THEN /\ nfail < MaxFailures
                       /\ nfail' = nfail + 1
                       /\ Leave("IOError", <<p>>)
                  ELSE /\ Step("cands_processed")
                       /\ UNCHANGED nfail
    /\ UNCHANGED <<diskvars, wlog, ghosts, nops>>
    /\ UNCHANGED <<store, rfile, unfinished, opening, sent, inited>>

\* _perform_candidates: ustate.processed(package, ' ')
perform_candidates_processed ==
    /\ pc = "cands_processed"
    /\ LET p == Head(cur.work)
           t == ProjectUpdateState_processed(trans, p, " ")
       IN  /\ trans' = t
           /\ Goto(AfterProcessed(t, "update", 3, Tail(cur.work)))
    /\ Logged("update", {})
    /\ UNCHANGED <<initialised, manifest, pkgdir, extstore, scratch, remote,
                   ghosts, nops, nfail>>
    /\ UNCHANGED <<store, rfile, unfinished, opening, sent, inited>>

\* the packages a merge of entrystates es writes
Touched(es) == {p \in Pkgs : es[p] # Unset}

\* _update: self._packages.merge(ustate.entrystates); back in update,
\* a transaction the call began itself is reported finished
update_merge ==
    /\ pc = "umerge"
    /\ manifest' = tracker_merge(packages, trans.entrystates)
    /\ Logged("update", Touched(trans.entrystates))
    /\ LeaveEvents("ok", <<>>, cur.info, cur.refused,
                   IF cur.fresh
                   THEN Append(cur.events, finished("prj_update"))
                   ELSE cur.events)
    /\ UNCHANGED <<initialised, trans, pkgdir, extstore, scratch, remote,
                   ghosts, nops, nfail>>
    /\ UNCHANGED <<store, rfile, unfinished, opening, sent, inited>>

(***************************************************************************)
(* Project.commit                                                          *)
(***************************************************************************)
\* a commit classification that takes every modified package
_calculate_commitinfo_modified(m, d, sel, com, mod) ==
    LET pkgs == IF sel = <<>> THEN packages_(m) ELSE sel
        Bucket(p) ==
            LET st == _status(m, d, p)
            IN  IF st = "A" THEN "added"
                ELSE IF st = "D" THEN "deleted"
                ELSE IF ~package(m, d, p) THEN "conflicted"
                ELSE IF mod[p] THEN "modified"
                ELSE IF ~com[p] THEN "conflicted"
                ELSE "unchanged"
    IN  [l \in ListNames |-> SelectSeq(pkgs, LAMBDA p : Bucket(p) = l)]

\* Project._calculate_commitinfo; com[p] and mod[p] are the answers of
\* p's is_commitable() and is_modified()
_calculate_commitinfo(m, d, sel, com, mod) ==
    LET pkgs == IF sel = <<>> THEN packages_(m) ELSE sel
        Bucket(p) ==
            LET st == _status(m, d, p)
            IN  IF st = "A" THEN "added"
                ELSE IF st = "D" THEN "deleted"
                ELSE IF ~package(m, d, p) THEN "conflicted"
                ELSE IF mod[p] /\ com[p] THEN "modified"
                ELSE IF ~com[p] THEN "conflicted"
                ELSE "unchanged"
    IN  [l \in ListNames |-> SelectSeq(pkgs, LAMBDA p : Bucket(p) = l)]

\* RemotePackage.exists and RemotePackage.delete: osc/remote.py defines
\* neither, the attribute lookup on the class raises
RemotePackage_exists == "AttributeError"
RemotePackage_delete == "AttributeError"

\* a commit that resumes a record whatever its phase
commit_resumes_any(cstate) == cstate.name # "none"

\* cstate is not None and cstate.state == CommitStateMixin.STATE_COMMITTING
commit_resumes(cstate) ==
    cstate.name # "none" /\ cstate.state = STATE_COMMITTING

\* pkg.commit() is issued for package p
pkg_commit(s, p) == [s EXCEPT !.n[p] = @ + 1]

\* commit(*packages) up to the with statement
commit_enter(sel) ==
    /\ \E m \in BagToSet(waiting) : Enter(m, "commit", sel, "", "commit")
    /\ wc_lock
    /\ sent' = IF sent.phase = "crashed" THEN [sent EXCEPT !.phase = "rerun"]
               ELSE [NoSent EXCEPT !.phase = "call"]
    /\ UNCHANGED <<diskvars, wlog, ghosts, nfail>>
    /\ UNCHANGED <<store, rfile, unfinished, opening, inited>>

\* body of commit up to the call of _commit
commit ==
    /\ pc = "commit"
    /\ LET cstate == trans
           r == is_commitable(trans)
       IN  IF r.ret \in {"NameError", "ValueError"}
           THEN /\ Leave(r.ret, <<>>)
                /\ UNCHANGED <<trans, wlog, expect>>
           ELSE IF r.ret = "False"
           THEN /\ Leave("PendingTransactionError", <<"commit">>)
                /\ UNCHANGED <<trans, wlog, expect>>
           ELSE IF commit_resumes(cstate)
           THEN \* _clear_cinfo, then _commit(cstate)
                LET info == r.trans.info
                    entry == IF info.unchanged # <<>> THEN info.unchanged[1]
                             ELSE IF info.added # <<>> THEN info.added[1]
                             ELSE IF info.deleted # <<>> THEN info.deleted[1]
                             ELSE IF info.modified # <<>> THEN info.modified[1]
                             ELSE IF info.conflicted # <<>>
                                  THEN info.conflicted[1]
                             ELSE ""
                    t == clear_info(r.trans, entry)
                    pos == NextPos(t, "commit", 1)
                IN  /\ trans' = t
                    /\ Logged("commit", {})
                    /\ pc' = pos.pc
                    /\ cur' = [cur EXCEPT !.work = pos.work,
                                          !.info = t.info,
                                          !.saved = t]
                    /\ UNCHANGED <<lock, last, packages, waiting, expect>>
           ELSE \E com \in Answers(packages, pkgdir),
                   mod \in Answers(packages, pkgdir) :
                LET info == _calculate_commitinfo(packages, pkgdir,
                                                  cur.sel, com, mod)
                    t == NewTrans("commit", STATE_TRANSFER, info,
                                  prior_states(packages, pkgdir))
                    pos == NextPos(t, "commit", 1)
                    ref == Refused(packages, pkgdir, cur.sel, com)
                IN  IF info.conflicted # <<>>
                    THEN /\ LeaveWith("FileConflictError", info.conflicted,
                                      info, ref)
                         /\ trans' = r.trans
                         /\ IF r.trans # trans
                            THEN Logged("commit", {})
                            ELSE UNCHANGED wlog
                         /\ UNCHANGED expect
                    ELSE IF r.trans # NoTrans
                    THEN \* a record exists: a fresh one cannot be written
                         /\ LeaveEvents("ValueError", <<>>, info, ref,
                                        <<begin("prj_commit")>>)
                         /\ trans' = r.trans
                         /\ UNCHANGED <<wlog, expect>>
                    ELSE /\ trans' = t
                         /\ Logged("commit", {})
                         /\ pc' = pos.pc
                         /\ cur' = [cur EXCEPT !.work = pos.work,
                                               !.info = info,
                                               !.refused = ref,
                                               !.saved = t,
                                               !.fresh = TRUE,
                                               !.events =
                                                   <<begin("prj_commit")>>]
                         /\ expect' = IF cur.rerun THEN expect
                                      ELSE ExpectedManifest(packages, info)
                         /\ UNCHANGED <<lock, last, packages, waiting>>
    /\ UNCHANGED <<initialised, manifest, pkgdir, extstore, scratch, remote,
                   crashed, addwork, nops, ncrash, nfail>>
    /\ UNCHANGED <<store, rfile, unfinished, opening, sent, inited>>

\* _commit_adds, one package: in TRANSFER the lookup of
\* RemotePackage.exists raises before anything is sent
_commit_adds ==
    /\ pc = "cadds"
    /\ LET p == Head(cur.work)
           t == ProjectCommitState_processed(trans, p, " ")
       IN  IF trans.state = STATE_TRANSFER
           THEN /\ Leave(RemotePackage_exists, <<p>>)
                /\ UNCHANGED <<trans, wlog>>
           ELSE /\ trans' = t
                /\ Logged("commit", {})
                /\ Goto(AfterProcessed(t, "commit", 1, Tail(cur.work)))
    /\ UNCHANGED <<initialised, manifest, pkgdir, extstore, scratch, remote,
                   ghosts, nops, nfail>>
    /\ UNCHANGED <<store, rfile, unfinished, opening, sent, inited>>

\* _commit_deletes, one package: in TRANSFER the lookup of
\* RemotePackage.delete raises before anything is sent
_commit_deletes ==
    /\ pc = "cdels"
    /\ LET p == Head(cur.work)
           t == ProjectCommitState_processed(trans, p, None)
       IN  IF trans.state = STATE_TRANSFER
           THEN /\ Leave(RemotePackage_delete, <<p>>)
                /\ UNCHANGED <<trans, wlog, pkgdir, extstore>>
           ELSE /\ pkgdir' = _remove_wc_dir(packages, pkgdir, p)
                /\ extstore' = extstore \ {p}
                /\ trans' = t
                /\ Logged("commit", {})
                /\ GotoEmit(AfterProcessed(t, "commit", 2, Tail(cur.work)),
                            notified(packages, pkgdir, p))
    /\ UNCHANGED <<initialised, manifest, scratch, remote,
                   ghosts, nops, nfail>>
    /\ UNCHANGED <<store, rfile, unfinished, opening, sent, inited>>

\* _commit_modified in TRANSFER: self.package(package) and pkg.commit()
commit_modified_commit ==
    /\ pc = "cmods"
    /\ trans.state = STATE_TRANSFER
    /\ LET p == Head(cur.work)
       IN  IF ~package(packages, pkgdir, p)
           THEN /\ Leave("AttributeError", <<p>>)
                /\ UNCHANGED <<nfail, sent>>
           ELSE \E fail \in BOOLEAN :
                  IF fail
                  THEN /\ nfail < MaxFailures
                       /\ nfail' = nfail + 1
                       /\ Leave("IOError", <<p>>)
                       /\ UNCHANGED sent
                  ELSE /\ Step("cmods_state")
                       /\ sent' = pkg_commit(sent, p)
                       /\ UNCHANGED nfail
    /\ UNCHANGED <<diskvars, wlog, ghosts, nops>>
    /\ UNCHANGED <<store, rfile, unfinished, opening, inited>>

\* _commit_modified in TRANSFER: cstate.state = STATE_COMMITTING
commit_modified_state ==
    /\ pc = "cmods_state"
    /\ trans' = [trans EXCEPT !.state = STATE_COMMITTING]
    /\ Logged("commit", {})
    /\ Step("cmods_processed")
    /\ UNCHANGED <<initialised, manifest, pkgdir, extstore, scratch, remote,
                   ghosts, nops, nfail>>
    /\ UNCHANGED <<store, rfile, unfinished, opening, sent, inited>>

\* _commit_modified: cstate.processed(package, ' ')
commit_modified_processed ==
    /\ \/ pc = "cmods_processed"
       \/ pc = "cmods" /\ trans.state # STATE_TRANSFER
    /\ LET p == Head(cur.work)
           t == ProjectCommitState_processed(trans, p, " ")
       IN  /\ trans' = t
           /\ Goto(AfterProcessed(t, "commit", 3, Tail(cur.work)))
    /\ Logged("commit", {})
    /\ UNCHANGED <<initialised, manifest, pkgdir, extstore, scratch, remote,
                   ghosts, nops, nfail>>
    /\ UNCHANGED <<store, rfile, unfinished, opening, sent, inited>>

\* _commit: self._packages.merge(cstate.entrystates); back in commit,
\* a transaction the call began itself is reported finished
commit_merge ==
    /\ pc = "cmerge"
    /\ manifest' = tracker_merge(packages, trans.entrystates)
    /\ Logged("commit", Touched(trans.entrystates))
    /\ LeaveEvents("ok", <<>>, cur.info, cur.refused,
                   IF cur.fresh
                   THEN Append(cur.events, finished("prj_commit"))
                   ELSE cur.events)
    /\ UNCHANGED <<initialised, trans, pkgdir, extstore, scratch, remote,
                   ghosts, nops, nfail>>
    /\ UNCHANGED <<store, rfile, unfinished, opening, sent, inited>>

(***************************************************************************)
(* Process death                                                           *)
(***************************************************************************)
\* the process whose call is in progress dies; the OS drops its lock
Crash ==
    /\ pc \in DrivingPcs \cup {"umerge", "cmerge"}
    /\ ncrash < MaxCrashes
    /\ ncrash' = ncrash + 1
    /\ pc' = "idle"
    /\ packages' = <<>>
    /\ cur' = NoCur
    /\ lock' = FALSE
    /\ crashed' = [op |-> cur.op, sel |-> cur.sel, between |-> Between,
                   entrystates |-> trans.entrystates, info |-> trans.info,
                   state |-> trans.state,
                   pkg |-> IF cur.work # <<>> THEN Head(cur.work) ELSE ""]
    /\ sent' = IF cur.op = "commit" /\ sent.phase = "call"
               THEN [sent EXCEPT !.phase = "crashed"]
               ELSE sent
    /\ UNCHANGED <<diskvars, waiting, last, wlog, expect, addwork, nops,
                   nfail>>
    /\ UNCHANGED <<store, rfile, unfinished, opening, inited>>

Next ==
    \/ \E project \in Projects, apiurl \in Apiurls : init(project, apiurl)
    \/ Project
    \/ \E pkg \in Pkgs : add_enter(pkg)
    \/ add
    \/ \E pkg \in Pkgs : remove_enter(pkg)
    \/ remove
    \/ \E sel \in Selections : update_enter(sel)
    \/ update
    \/ perform_adds_mkdir
    \/ perform_adds_init
    \/ perform_adds_state
    \/ perform_adds_fixup
    \/ perform_adds_processed
    \/ perform_deletes_state
    \/ perform_deletes_remove
    \/ perform_deletes_processed
    \/ perform_candidates
    \/ perform_candidates_processed
    \/ update_merge
    \/ \E sel \in Selections : commit_enter(sel)
    \/ commit
    \/ _commit_adds
    \/ _commit_deletes
    \/ commit_modified_commit
    \/ commit_modified_state
    \/ commit_modified_processed
    \/ commit_merge
    \/ Crash

Spec == Init /\ [][Next]_vars

(***************************************************************************)
(* Properties                                                              *)
(***************************************************************************)
\* the call that ended last repeated the call of a process that died, no
\* package refused and no package operation failed in it
RerunEnded ==
    /\ last.op \in {"update", "commit"}
    /\ last.rerun
    /\ ~last.refused
    /\ last.err # "IOError"

\* C1: when update() or commit() is run again after a process died between
\* two consecutive processed calls of the same operation, the second run
\* ends successfully and leaves the manifest a run without the crash leaves.
C1_IdempotentResume ==
    (RerunEnded /\ crashed.between)
        => (last.err = "ok" /\ manifest = expect)

\* the packages the record of the process that died had marked processed
Processed(es) == {p \in Pkgs : es[p] # Unset}

\* C2: when update() is run again after a process died with some package
\* already marked processed, it completes, every processed and every
\* remaining package has its recorded state in the manifest (' ' for an
\* added package or a candidate, no entry for a deleted one), and the add
\* work of a package already processed was issued once only.
C2_ResumeAfterProcessed ==
    (/\ RerunEnded /\ last.op = "update" /\ crashed.op = "update"
     /\ \E p \in Processed(crashed.entrystates) : addwork[p] > 0)
        => /\ last.err = "ok"
           /\ \A p \in Pkgs :
                /\ (crashed.entrystates[p] = " "
                    \/ Contains(crashed.info.added, p)
                    \/ Contains(crashed.info.candidates, p))
                       => EntryOf(manifest, p) = " "
                /\ (crashed.entrystates[p] = None
                    \/ Contains(crashed.info.deleted, p))
                       => ~Tracked(manifest, p)
                /\ p \in Processed(crashed.entrystates) => addwork[p] <= 1

\* C3: a mutating call that returns has seen everything the calls before
\* it wrote: compared with the manifest on disk when it took the lock, the
\* manifest it leaves differs only in the entries it wrote itself, so no
\* effect of an earlier call of another handle is lost.
C3_NoLostUpdate ==
    (last.err = "ok" /\ last.op \in {"add", "remove", "update", "commit"})
        => \A p \in Pkgs \ wlog.touched :
              EntryOf(manifest, p) = EntryOf(last.before.manifest, p)

\* the call that ended last was an update or a commit whose classification
\* returned a non-empty conflicted list
Conflicted ==
    /\ last.op \in {"update", "commit"}
    /\ last.info.conflicted # <<>>

\* C4 as stated: with a non-empty conflicted list the call raises
\* FileConflictError carrying exactly that list, and manifest, transaction
\* record, package directories, external stores and remote listing are
\* what they were when the call started.
C4_ConflictBeforeAnyMutation ==
    Conflicted
        => /\ last.err = "FileConflictError"
           /\ last.arg = last.info.conflicted
           /\ Disk = last.before

\* C4 amended: as above, except that commit() may have erased a leftover
\* update record that was in PREPARE (the rollback of is_commitable comes
\* before the classification); everything else is untouched.
C4_ConflictBeforeMutation ==
    Conflicted
        => /\ last.err = "FileConflictError"
           /\ last.arg = last.info.conflicted
           /\ [Disk EXCEPT !.trans = NoTrans]
                 = [last.before EXCEPT !.trans = NoTrans]
           /\ \/ trans = last.before.trans
              \/ /\ last.op = "commit"
                 /\ last.before.trans.name = "update"
                 /\ last.before.trans.state = STATE_PREPARE
                 /\ trans = NoTrans

\* commit() raised FileConflictError after rolling a leftover update back
C4_Witness ==
    /\ Conflicted
    /\ last.op = "commit"
    /\ last.err = "FileConflictError"
    /\ last.before.trans.name = "update"
    /\ trans = NoTrans

\* C6: after update() or commit() has returned without error the manifest
\* on disk has state ' ' for every package processed with ' ', no entry for
\* a package processed with None, every other entry as it was when the
\* call started, and there is no transaction record.
C6_AfterSuccess ==
    (last.op \in {"update", "commit"} /\ last.err = "ok")
        => /\ \A p \in Pkgs :
                /\ last.es[p] = " " => EntryOf(manifest, p) = " "
                /\ last.es[p] = None => ~Tracked(manifest, p)
                /\ last.es[p] = Unset =>
                      EntryOf(manifest, p) = EntryOf(last.before.manifest, p)
           /\ trans = NoTrans

\* the call that ended last raised inside a phase of update() or commit()
PhaseFailure ==
    /\ last.op \in {"update", "commit"}
    /\ last.pos \in DrivingPcs
    /\ last.err # "ok"

\* what a failure inside a phase leaves whatever the record's phase tag:
\* the lock is free, the failed and the remaining packages of the loop are
\* still listed, and no directory or external store of a package that was
\* not processed and is not the failed one has been removed
FailureLeaves ==
    /\ lock = FALSE
    /\ trans.name = last.op
    /\ \A p \in Elems(last.work) :
          \E l \in ListNames : Contains(trans.info[l], p)
    /\ \A p \in Pkgs \ (Processed(trans.entrystates) \cup {Head(last.work)}) :
          /\ pkgdir[p] = last.before.pkgdir[p]
          /\ p \in last.before.extstore => p \in extstore

\* C7 as stated: a call that raises inside a phase leaves the lock free and
\* the record exactly as the constructor, processed or clear_info persisted
\* it last, and destroys nothing outside the failed step.
C7_FailureKeepsRecord ==
    PhaseFailure => (FailureLeaves /\ trans = last.saved)

\* C7 amended: the record has the lists and the entry states persisted
\* last, but its phase tag is either the persisted one or the second phase
\* of its kind, which the failed step may have set before it raised.
C7_FailureKeepsLists ==
    PhaseFailure
        => /\ FailureLeaves
           /\ [trans EXCEPT !.state = last.saved.state] = last.saved
           /\ trans.state \in {last.saved.state,
                                IF last.op = "update" THEN STATE_UPDATING
                                ELSE STATE_COMMITTING}

\* the removal of a deleted package failed after the record went to UPDATING
C7_Witness ==
    /\ PhaseFailure
    /\ last.pos = "dels_remove"
    /\ last.saved.state = STATE_PREPARE
    /\ trans.state = STATE_UPDATING

\* C8: update() on top of a commit record that cannot be rolled back and
\* commit() on top of an update record that cannot be rolled back raise
\* PendingTransactionError naming the kind of the record, and manifest,
\* record and package directories are unchanged.
C8_PendingNamesKind ==
    /\ (/\ last.op = "update"
         /\ last.before.trans.name = "commit"
         /\ last.before.trans.state = STATE_COMMITTING)
           => /\ last.err = "PendingTransactionError"
              /\ last.arg = <<"commit">>
              /\ Disk = last.before
    /\ (/\ last.op = "commit"
         /\ last.before.trans.name = "update"
         /\ last.before.trans.state = STATE_UPDATING)
           => /\ last.err = "PendingTransactionError"
              /\ last.arg = <<"update">>
              /\ Disk = last.before

\* a manifest in which every name occurs once with a state ' ', 'A' or 'D'
ValidManifest(m) ==
    /\ \A i, j \in 1..Len(m) : m[i].name = m[j].name => i = j
    /\ \A i \in 1..Len(m) : m[i].state \in {" ", "A", "D"}

\* C9: in every reachable state, the intermediate states of add, remove,
\* update and commit and the states a dying process leaves included, the
\* manifest on disk is valid.
C9_ManifestValid == ValidManifest(manifest)

\* remove() has marked a package whose directory is missing
C9_Witness ==
    /\ last.op = "remove"
    /\ last.err = "ok"
    /\ _status(last.before.manifest, last.before.pkgdir, last.pkg) = "!"
    /\ ValidManifest(manifest)

\* C10: every write to the manifest or to the record, by init included, is
\* made with the lock held, and the lock stays held as long as the call
\* goes on.
C10_WritesUnderLock ==
    [][/\ wlog' # wlog => wlog'.held
       /\ (pc # "idle" /\ pc' # "idle") => (lock /\ lock')]_vars

\* C14: add(pkg) succeeds only if the handle has no entry for pkg and
\* <wc>/pkg is a directory that is no working copy; it then appends the
\* entry {pkg, 'A'} to the manifest of the handle, leaves the other entries
\* alone, writes the manifest and creates the external store; in every
\* other case it raises ValueError and manifest and external stores are
\* unchanged.
C14_AddContract ==
    [][(pc = "add" /\ pc' = "idle")
          => IF ~Tracked(packages, cur.pkg) /\ pkgdir[cur.pkg] = "dir"
             THEN /\ last'.err = "ok"
                  /\ manifest' = Append(packages, [name |-> cur.pkg,
                                                   state |-> "A"])
                  /\ extstore' = extstore \cup {cur.pkg}
             ELSE /\ last'.err = "ValueError"
                  /\ manifest' = manifest
                  /\ extstore' = extstore
                  /\ pkgdir' = pkgdir]_vars

\* add() has appended an entry after an existing one
C14_Witness ==
    /\ last.op = "add"
    /\ last.err = "ok"
    /\ Len(manifest) >= 2
    /\ manifest[Len(manifest)] = [name |-> last.pkg, state |-> "A"]
    /\ last.before.pkgdir[last.pkg] = "dir"

\* C15: remove(pkg) raises ValueError and changes nothing if the handle has
\* no entry for pkg; it drops the entry if the status is 'A'; it sets the
\* state to 'D' if the status is ' ', 'D' or '!'; in both cases it writes
\* the manifest and no other entry changes.
C15_RemoveContract ==
    [][(pc = "remove" /\ pc' = "idle")
          => LET e == EntryOf(packages, cur.pkg)
             IN  IF e = "-"
                 THEN /\ last'.err = "ValueError"
                      /\ manifest' = manifest
                 ELSE /\ last'.err = "ok"
                      /\ wlog'.op = "remove"
                      /\ manifest' =
                            IF e = "A" /\ pkgdir[cur.pkg] # "none"
                            THEN SelectSeq(packages,
                                     LAMBDA x : x.name # cur.pkg)
                            ELSE [i \in 1..Len(packages) |->
                                    IF packages[i].name = cur.pkg
                                    THEN [name |-> cur.pkg, state |-> "D"]
                                    ELSE packages[i]]]_vars

\* add(p) followed by remove(p) has left no entry for p
C15_Witness ==
    /\ last.op = "remove"
    /\ last.err = "ok"
    /\ last.before.pkgdir[last.pkg] = "wcu"
    /\ EntryOf(last.before.manifest, last.pkg) = "A"
    /\ ~Tracked(manifest, last.pkg)

\* the call in progress found the record a dying process left in its
\* second phase (UPDATING, COMMITTING) and has resumed it
Resumed ==
    /\ cur.op \in {"update", "commit"}
    /\ pc \in DrivingPcs \cup {"umerge", "cmerge"}
    /\ ~cur.fresh
    /\ crashed.op = cur.op
    /\ crashed.pkg # ""
    /\ cur.before.trans.state = crashed.state
    /\ cur.before.trans.info = crashed.info
    /\ cur.before.trans.entrystates = crashed.entrystates

\* C20: the one entry update() or commit() discards through clear_info
\* before it resumes is the package the dead process was working on, the
\* head of the work-list of its loop; every other entry of every list is
\* left to be driven.
C20_ClearsInterruptedHead ==
    Resumed
        => \A l \in ListNames :
              cur.info[l]
                = SelectSeq(crashed.info[l], LAMBDA p : p # crashed.pkg)

\* the call in progress began the transaction whose record is on disk
OwnTransaction ==
    /\ pc \in DrivingPcs
    /\ cur.fresh
    /\ trans.name = cur.op

\* C21: whenever the record is in the first phase of its kind (PREPARE,
\* TRANSFER) no work of the transaction has been applied: package
\* directories, external stores and the remote listing are what they were
\* when the transaction began, and the record holds no processed package a
\* rollback would discard.
C21_FirstPhaseNothingDone ==
    (OwnTransaction /\ trans.state \in {STATE_PREPARE, STATE_TRANSFER})
        => /\ pkgdir = cur.before.pkgdir
           /\ extstore = cur.before.extstore
           /\ remote = cur.before.remote
           /\ trans.entrystates = NoStates

\* the order in which a transaction of the kind goes through its lists
ClaimedOrder(kind) ==
    IF kind = "update" THEN <<"added", "deleted", "candidates">>
    ELSE <<"added", "deleted", "modified">>

\* the step of a driven transaction does something to p or for p: its
\* directory, external store or scratch directory changes, its add work is
\* issued or it is marked processed
Touches(p) ==
    /\ pc \in DrivingPcs
    /\ \/ pkgdir'[p] # pkgdir[p]
       \/ (p \in extstore') # (p \in extstore)
       \/ (p \in scratch') # (p \in scratch)
       \/ addwork'[p] # addwork[p]
       \/ trans'.entrystates[p] # trans.entrystates[p]

\* the loop the call in progress is in: 1 for _perform_adds and
\* _commit_adds, 2 for the deletes, 3 for the candidates and the modified
LoopAt ==
    IF pc \in {"adds", "adds_init", "adds_state", "adds_fixup",
               "adds_processed", "cadds"} THEN 1
    ELSE IF pc \in {"dels", "dels_remove", "dels_processed", "cdels"} THEN 2
    ELSE 3

C25_CommitAdds ==
    [][(pc = "cadds" /\ ncrash' = ncrash)
          => LET p == Head(cur.work)
             IN  /\ trans'.entrystates[p] = " "
                 /\ ~Contains(trans'.info.added, p)
                 /\ IF trans.state = STATE_TRANSFER
                    THEN Elems(remote') = Elems(remote) \cup {p}
                    ELSE remote' = remote]_vars

\* C26: in update's add loop <wc>/p comes into existence only when the
\* scratch directory <txloc>/p is renamed, with the record in UPDATING and
\* after the checkout into the scratch directory has finished; no package
\* whose checkout did not finish ever has a directory <wc>/p.
C26_AddedOnlyByRename ==
    [][\A p \in Pkgs :
          /\ (/\ cur.op = "update"
              /\ pkgdir[p] = "none"
              /\ pkgdir'[p] # "none")
                => /\ p \in scratch
                   /\ p \notin scratch'
                   /\ p \notin unfinished
                   /\ addwork[p] > 0
                   /\ trans.name = "update"
                   /\ trans.state = STATE_UPDATING
                   /\ trans.info.added # <<>>
                   /\ Head(trans.info.added) = p
          /\ p \in unfinished' => pkgdir'[p] = "none"]_vars

\* a process died after the checkout of an added package and before the
\* rename; the update that was run again has moved the directory into place
C26_Witness ==
    /\ crashed.op = "update"
    /\ crashed.state = STATE_UPDATING
    /\ crashed.pkg # ""
    /\ Contains(crashed.info.added, crashed.pkg)
    /\ cur.op = "update"
    /\ ~cur.fresh
    /\ pkgdir[crashed.pkg] = "wc"
    /\ crashed.pkg \notin scratch

\* the call that ended last drove a transaction through its merge
Completed ==
    /\ last.op \in {"update", "commit"}
    /\ last.pos \in {"umerge", "cmerge"}
    /\ last.err = "ok"

\* the events e open with begin(kind) and close with the one finished(kind)
Bracketed(e, kind) ==
    /\ e # <<>>
    /\ e[1] = begin(kind)
    /\ e[Len(e)] = finished(kind)
    /\ \A i \in 1..(Len(e) - 1) : e[i] # finished(kind)

\* C27: a call of update() or commit() that drives a transaction to its
\* end, begun by the call or resumed from a persisted record, passes the
\* begin event of its kind to the notifier before any processed event and
\* finished(kind, aborted=False) once, after the last processed event.
C27_BeginAndFinished ==
    Completed
        => Bracketed(last.events,
                     IF last.op = "update" THEN "prj_update"
                     ELSE "prj_commit")

(***************************************************************************)
(* The two rollback methods called on their own on a persisted record      *)
(***************************************************************************)
\* where a package of a persisted record is: in one of its work-lists,
\* processed with ' ' (done) or with None (gone), or not part of it
RecordPlaces(name) ==
    (IF name = "update" THEN {"candidates", "added", "deleted"}
     ELSE {"unchanged", "added", "deleted", "modified"})
        \cup {"done", "gone", "absent"}

\* the record of kind name in phase state with the packages placed by f
\* (with package names in place of the persisted object: f[p] is a place)
PersistedRecord(name, state, f) ==
    [name |-> name, state |-> state,
     info |-> [l \in ListNames |->
                  SelectSeq(Ordered(Pkgs), LAMBDA p : f[p] = l)],
     entrystates |-> [p \in Pkgs |-> IF f[p] = "done" THEN " "
                                     ELSE IF f[p] = "gone" THEN None
                                     ELSE Unset],
     states |-> [p \in Pkgs |->
                    IF f[p] = "absent" \/ (name = "update" /\ f[p] = "added")
                    THEN Unset
                    ELSE IF f[p] = "added" THEN "A"
                    ELSE IF name = "commit" /\ f[p] \in {"deleted", "gone"}
                         THEN "D"
                    ELSE " "]]

PersistedRecords ==
    {PersistedRecord("update", s, f) :
        s \in {STATE_PREPARE, STATE_UPDATING},
        f \in [Pkgs -> RecordPlaces("update")]}
    \cup
    {PersistedRecord("commit", s, f) :
        s \in {STATE_TRANSFER, STATE_COMMITTING},
        f \in [Pkgs -> RecordPlaces("commit")]}

InitRollback ==
    /\ trans \in PersistedRecords
    /\ initialised = TRUE
    /\ store = FixtureStore
    /\ manifest = <<>>
    /\ pkgdir = [p \in Pkgs |-> "none"]
    /\ extstore = {}
    /\ scratch = {}
    /\ remote = <<>>
    /\ lock = FALSE
    /\ waiting = EmptyBag
    /\ pc = "idle"
    /\ packages = <<>>
    /\ cur = NoCur
    /\ last = NoLast
    /\ wlog = NoLog
    /\ crashed = NoCrash
    /\ expect = <<>>
    /\ addwork = [p \in Pkgs |-> 0]
    /\ nops = 0
    /\ ncrash = 0
    /\ nfail = 0
    /\ rfile = NoFile
    /\ unfinished = {}
    /\ opening = NoOpening
    /\ sent = NoSent
    /\ inited = [p \in Pkgs |-> NoIdentity]

\* a static rollback method is called on the path: r is what it returns or
\* raises and the record it leaves
Rolledback(op, r) ==
    /\ last.op = "none"
    /\ trans' = r.trans
    /\ last' = [NoLast EXCEPT !.op = op, !.err = r.ret, !.before = Disk]
    /\ IF r.trans # trans THEN Logged(op, {}) ELSE UNCHANGED wlog
    /\ UNCHANGED <<initialised, manifest, pkgdir, extstore, scratch, remote,
                   lock, waiting, pc, packages, cur, ghosts, nops, nfail,
                   store, rfile, unfinished, opening, sent, inited>>

\* ProjectUpdateState.rollback(path)
rollback_update ==
    Rolledback("ProjectUpdateState.rollback",
               ProjectUpdateState_rollback(trans))

\* ProjectCommitState.rollback(path)
rollback_commit ==
    Rolledback("ProjectCommitState.rollback",
               ProjectCommitState_rollback(trans))

NextRollback ==
    \/ rollback_update
    \/ rollback_commit

SpecRollback == InitRollback /\ [][NextRollback]_vars

\* C22: ProjectUpdateState.rollback on an update record in PREPARE erases
\* the record and returns True; on an update record in UPDATING it returns
\* False and leaves the record; on a record of another kind it raises
\* ValueError and leaves the record.
C22_UpdateRollback ==
    last.op = "ProjectUpdateState.rollback"
        => LET t == last.before.trans
           IN  IF t.name # "update"
               THEN last.err = "ValueError" /\ trans = t
               ELSE IF t.state = STATE_PREPARE
               THEN last.err = "True" /\ trans = NoTrans
               ELSE last.err = "False" /\ trans = t

\* the update rollback has erased a record in PREPARE that listed a package
\* and held a processed one
C22_Witness ==
    /\ last.op = "ProjectUpdateState.rollback"
    /\ last.err = "True"
    /\ last.before.trans.name = "update"
    /\ last.before.trans.info.added # <<>>
    /\ last.before.trans.entrystates # NoStates
    /\ trans = NoTrans

\* C23: ProjectCommitState.rollback on a commit record in TRANSFER erases
\* the record and returns True; on a commit record in COMMITTING it returns
\* False and leaves the record; on a record of another kind it raises
\* ValueError; no other error is raised.
C23_CommitRollback ==
    last.op = "ProjectCommitState.rollback"
        => LET t == last.before.trans
           IN  IF t.name # "commit"
               THEN last.err = "ValueError" /\ trans = t
               ELSE IF t.state = STATE_TRANSFER
               THEN last.err = "True" /\ trans = NoTrans
               ELSE last.err = "False" /\ trans = t

\* what the removal of the tracked files and of the store symlink leaves
\* of a directory: nothing of a package working copy, the untracked files
\* of one that holds some, and any other directory as it is
Removed(dir) ==
    IF dir = "wc" THEN "none" ELSE IF dir = "wcu" THEN "dir" ELSE dir

\* C30: update's delete loop, for the package p at the head of the list:
\* the record goes to UPDATING with nothing else changed; then the tracked
\* files and the store symlink of p and the external store data/p are
\* removed, <wc>/p itself only if nothing is left in it, and nothing of
\* another package; then p is marked processed with no state, and the
\* merge drops its entry from the manifest.
C30_DeletePhase ==
    [][/\ (pc = "dels" /\ ncrash' = ncrash)
            => /\ trans'.state = STATE_UPDATING
               /\ pkgdir' = pkgdir /\ extstore' = extstore
               /\ manifest' = manifest
       /\ (pc = "dels_remove" /\ pc' = "dels_processed")
            => LET p == Head(cur.work)
               IN  /\ trans.state = STATE_UPDATING
                   /\ pkgdir' = [pkgdir EXCEPT ![p] = Removed(pkgdir[p])]
                   /\ extstore' = extstore \ {p}
                   /\ manifest' = manifest
       /\ (pc = "dels_processed" /\ ncrash' = ncrash)
            => LET p == Head(cur.work)
               IN  /\ trans'.entrystates[p] = None
                   /\ ~Contains(trans'.info.deleted, p)
                   /\ pkgdir' = pkgdir /\ extstore' = extstore
       /\ (pc = "umerge" /\ ncrash' = ncrash)
            => \A p \in Pkgs :
                  trans.entrystates[p] = None => ~Tracked(manifest', p)]_vars

\* update() has removed a deleted package whose directory held untracked
\* files, and the merge has dropped its entry
C30_Witness ==
    /\ last.op = "update"
    /\ last.err = "ok"
    /\ \E p \in Pkgs : /\ last.es[p] = None
                       /\ last.before.pkgdir[p] = "wcu"
                       /\ Tracked(last.before.manifest, p)
                       /\ pkgdir[p] = "dir"
                       /\ p \notin extstore
                       /\ ~Tracked(manifest, p)

\* C33: across a single death of a commit() and the commit() run again
\* after it, each remote mutation that belongs to a package (creating it on
\* the server, its working copy's commit(), deleting it on the server) is
\* issued at most once for that package.
C33_SentOnce == \A p \in Pkgs : sent.n[p] <= 1

\* a commit died after the commit() of a package was issued, and the
\* commit run again has completed
C33_Witness ==
    /\ sent.phase = "rerun"
    /\ pc = "idle"
    /\ last.op = "commit"
    /\ last.err = "ok"
    /\ \E p \in Pkgs : sent.n[p] = 1

\* C34: after add(p) and then remove(p) while p has state 'A', the status
\* of p is '?' and add(p) is accepted again: it returns without raising,
\* the package store in <wc>/p and the external store data/p left by the
\* first add do not block it.
C34_AddAgain ==
    [][(/\ pc = "add"
        /\ pc' = "idle"
        /\ wlog.op = "remove"
        /\ wlog.touched = {cur.pkg}
        /\ cur.before.manifest = packages
        /\ ~Tracked(packages, cur.pkg))
          => /\ _status(packages, pkgdir, cur.pkg) = "?"
             /\ last'.err = "ok"]_vars

\* C35: add(pkg) and the add phase of update initialise the package
\* working copy with the same identity, init(path, project, name, api_url,
\* external_store): project is the name of the project working copy and
\* name the name of the package, never the two swapped.
C35_InitIdentity ==
    \A p \in Pkgs :
        inited[p] # NoIdentity
            => inited[p] = [project |-> ReadLine(store["_project"].text),
                            name |-> p,
                            apiurl |-> ReadLine(store["_apiurl"].text)]

(***************************************************************************)
(* The constructor statement by statement, next to init and to the calls   *)
(* add and remove of another process                                       *)
(***************************************************************************)
\* Project.__init__: wc_check(path), no lock is held
Project_wc_check ==
    /\ opening.at = "none"
    /\ Open < MaxHandles
    /\ LET c == wc_check(store)
       IN  IF c.missing # <<>> \/ c.xml_data # <<>>
           THEN /\ last' = [NoLast EXCEPT !.op = "Project",
                                          !.err = "WCInconsistentError",
                                          !.arg = c.missing,
                                          !.raw = c.xml_data]
                /\ UNCHANGED opening
           ELSE /\ opening' = [opening EXCEPT !.at = "checked"]
                /\ UNCHANGED last
    /\ UNCHANGED <<diskvars, lock, waiting, pc, packages, cur, wlog, ghosts,
                   nops, nfail, store, rfile, unfinished, sent,
                   inited>>

\* Project.__init__: self.apiurl = wc_read_apiurl(path)
Project_apiurl ==
    /\ opening.at = "checked"
    /\ opening' = [opening EXCEPT !.at = "apiurl",
                                  !.got = @ \cup {"apiurl"},
                                  !.apiurl = ReadLine(store["_apiurl"].text)]
    /\ UNCHANGED <<diskvars, lock, waiting, pc, packages, cur, last, wlog,
                   ghosts, nops, nfail, store, rfile, unfinished, sent,
                   inited>>

\* Project.__init__: self.name = wc_read_project(path)
Project_name ==
    /\ opening.at = "apiurl"
    /\ opening' = [opening EXCEPT !.at = "name",
                                  !.got = @ \cup {"name"},
                                  !.name = ReadLine(store["_project"].text)]
    /\ UNCHANGED <<diskvars, lock, waiting, pc, packages, cur, last, wlog,
                   ghosts, nops, nfail, store, rfile, unfinished, sent,
                   inited>>

\* Project.__init__: with wc_lock(path) as lock
Project_lock ==
    /\ opening.at = "name"
    /\ wc_lock
    /\ opening' = [opening EXCEPT !.at = "locked"]
    /\ UNCHANGED <<diskvars, waiting, pc, packages, cur, last, wlog,
                   ghosts, nops, nfail, store, rfile, unfinished, sent,
                   inited>>

\* Project.__init__: self._packages = wc_read_packages(path); the with
\* block is left
Project_packages ==
    /\ opening.at = "locked"
    /\ lock' = FALSE
    /\ opening' = NoOpening
    /\ IF ~store["_packages"].xml
       THEN /\ last' = [NoLast EXCEPT !.op = "Project", !.err = "ValueError"]
            /\ UNCHANGED waiting
       ELSE /\ waiting' = waiting (+)
                   SetToBag({[name |-> opening.name,
                              apiurl |-> opening.apiurl,
                              packages |-> manifest]})
            /\ UNCHANGED last
    /\ UNCHANGED <<diskvars, pc, packages, cur, wlog, ghosts, nops, nfail,
                   store, rfile, unfinished, sent,
                   inited>>

NextOpen ==
    \/ \E project \in Projects, apiurl \in Apiurls : init(project, apiurl)
    \/ Project_wc_check
    \/ Project_apiurl
    \/ Project_name
    \/ Project_lock
    \/ Project_packages
    \/ \E pkg \in Pkgs : add_enter(pkg)
    \/ add
    \/ \E pkg \in Pkgs : remove_enter(pkg)
    \/ remove

SpecOpen == Init /\ [][NextOpen]_vars

\* the step is a read of the constructor: of _apiurl or _project, or of
\* _packages at the end of the with block
ConstructorReads ==
    \/ opening'.at # "none" /\ opening'.got # opening.got
    \/ opening.at = "locked" /\ opening'.at = "none"

\* C29: the constructor reads api_url, name and the manifest while it holds
\* the project lock, so it reads none of the three while a mutating call of
\* another process is in progress.
C29_ReadsUnderLock ==
    [][ConstructorReads
          => /\ lock
             /\ opening.at = "locked"
             /\ pc = "idle"]_vars

(***************************************************************************)
(* Classification on its own: any manifest, any directories, any remote    *)
(* listing, any selection and any answers of the packages                  *)
(***************************************************************************)
ClassifyStates == <<"-", " ", "A", "D">>

ClassifyDirs == <<"none", "dir", "wc">>

\* a package: its manifest state, its directory, its presence on the server
ClassifyKinds ==
    {<<i, j, r>> : i \in 1..Len(ClassifyStates), j \in 1..Len(ClassifyDirs),
                   r \in {0, 1}}

KindRank(k) == ((k[1] * Len(ClassifyDirs)) + k[2]) * 2 + k[3]

\* one kind per package; the names are interchangeable, so the kinds are
\* taken in ascending order along PkgNames
ClassifyChoices ==
    {k \in [1..MaxPkgs -> ClassifyKinds] :
        \A i \in 1..(MaxPkgs - 1) : KindRank(k[i]) <= KindRank(k[i + 1])}

ClassifySelections ==
    {<<>>} \cup {<<p>> : p \in Pkgs}
           \cup {<<p, q>> : p \in Pkgs, q \in Pkgs}

InitClassify ==
    /\ InitCommon
    /\ rfile = NoFile
    /\ initialised = TRUE
    /\ store = FixtureStore
    /\ extstore = {}
    /\ \E k \in ClassifyChoices :
          LET kind == [p \in Pkgs |->
                         k[CHOOSE i \in 1..MaxPkgs : PkgNames[i] = p]]
              t == Ordered({p \in Pkgs : kind[p][1] # 1})
          IN  /\ manifest = [i \in 1..Len(t) |->
                    [name |-> t[i], state |-> ClassifyStates[kind[t[i]][1]]]]
              /\ pkgdir = [p \in Pkgs |-> ClassifyDirs[kind[p][2]]]
              /\ remote = Ordered({p \in Pkgs : kind[p][3] = 1})

\* prj._calculate_updateinfo(*sel)
classify_update(sel, upd) ==
    /\ pc = "idle"
    /\ LET u == _calculate_updateinfo(manifest, pkgdir, remote, sel, upd)
       IN  /\ cur' = [cur EXCEPT !.op = "update", !.sel = sel,
                                 !.answers = upd,
                                 !.info = IF u.err = "ok" THEN u.info
                                          ELSE EmptyInfo]
           /\ last' = [last EXCEPT !.err = u.err]
    /\ pc' = "classified"
    /\ UNCHANGED <<diskvars, lock, waiting, packages, wlog, ghosts, nops,
                   nfail>>
    /\ UNCHANGED <<store, rfile, unfinished, opening, sent, inited>>

\* prj._calculate_commitinfo(*sel)
classify_commit(sel, com, mod) ==
    /\ pc = "idle"
    /\ cur' = [cur EXCEPT !.op = "commit", !.sel = sel,
                          !.info = _calculate_commitinfo(manifest, pkgdir,
                                                         sel, com, mod)]
    /\ last' = [last EXCEPT !.err = "ok"]
    /\ pc' = "classified"
    /\ UNCHANGED <<diskvars, lock, waiting, packages, wlog, ghosts, nops,
                   nfail>>
    /\ UNCHANGED <<store, rfile, unfinished, opening, sent, inited>>

\* prj._status(pkg)
test_status(pkg) ==
    /\ pc = "idle"
    /\ cur' = [cur EXCEPT !.op = "status", !.pkg = pkg]
    /\ last' = [last EXCEPT !.err = "ok",
                            !.arg = <<_status(manifest, pkgdir, pkg)>>]
    /\ pc' = "classified"
    /\ UNCHANGED <<diskvars, lock, waiting, packages, wlog, ghosts, nops,
                   nfail>>
    /\ UNCHANGED <<store, rfile, unfinished, opening, sent, inited>>

NextClassify ==
    \/ \E pkg \in Pkgs : test_status(pkg)
    \/ \E sel \in ClassifySelections, upd \in Answers(manifest, pkgdir) :
          classify_update(sel, upd)
    \/ \E sel \in ClassifySelections, com \in Answers(manifest, pkgdir),
          mod \in Answers(manifest, pkgdir) :
          classify_commit(sel, com, mod)

SpecClassify == InitClassify /\ [][NextClassify]_vars

\* C5: the four lists of update classification and the five lists of
\* commit classification are pairwise disjoint, whatever the remote
\* listing, the local state and the selection.
C5_ListsDisjoint ==
    pc = "classified"
        => \A l1, l2 \in ListNames :
              l1 # l2 => Elems(cur.info[l1]) \cap Elems(cur.info[l2]) = {}

\* update classification has moved a candidate to conflicted and kept
\* another
C5_Witness ==
    /\ pc = "classified"
    /\ cur.op = "update"
    /\ cur.info.candidates # <<>>
    /\ cur.info.conflicted # <<>>
    /\ Elems(cur.info.conflicted) \subseteq Elems(remote)

\* C11: the status of a package is '?' if the manifest has no entry for it,
\* '!' if the manifest state is ' ' or 'A' and the directory is missing, and
\* the manifest state otherwise ('D' with a missing directory is 'D'); it
\* is always one of ' ', 'A', 'D', '!', '?'.
C11_StatusTotal ==
    (pc = "classified" /\ cur.op = "status")
        => LET e == EntryOf(manifest, cur.pkg)
               st == last.arg[1]
           IN  /\ st \in {" ", "A", "D", "!", "?"}
               /\ st = IF e = "-" THEN "?"
                       ELSE IF e \in {" ", "A"} /\ pkgdir[cur.pkg] = "none"
                            THEN "!"
                       ELSE e

\* the status of a package marked 'D' whose directory is missing was asked
C11_Witness ==
    /\ pc = "classified"
    /\ cur.op = "status"
    /\ EntryOf(manifest, cur.pkg) = "D"
    /\ pkgdir[cur.pkg] = "none"
    /\ last.arg = <<"D">>

\* the lists the update classification of manifest, directories and remote
\* listing has to return when the packages answer upd, no selection given
HasWC(p) ==
    /\ Tracked(manifest, p)
    /\ pkgdir[p] # "none"
    /\ StateOf(manifest, p) = "D" => pkgdir[p] \in {"wc", "wcu"}

NotUpdateable(p, upd) == HasWC(p) /\ ~upd[p]

StatusA(p) == StateOf(manifest, p) = "A" /\ pkgdir[p] # "none"

StatusMissing(p) == StateOf(manifest, p) \in {" ", "A"} /\ pkgdir[p] = "none"

ExpectedCandidates(upd) ==
    SelectSeq(remote, LAMBDA p :
        /\ Tracked(manifest, p)
        /\ ~StatusA(p) /\ ~StatusMissing(p) /\ ~NotUpdateable(p, upd))

ExpectedAdded ==
    SelectSeq(remote, LAMBDA p : ~Tracked(manifest, p) /\ pkgdir[p] = "none")

ExpectedDeleted(upd) ==
    SelectSeq(packages_(manifest), LAMBDA p :
        ~Contains(remote, p) /\ ~StatusA(p) /\ ~NotUpdateable(p, upd))

ExpectedConflicted(upd) ==
    {p \in Elems(remote) \cap Elems(packages_(manifest)) :
        StatusA(p) \/ StatusMissing(p) \/ NotUpdateable(p, upd)}
    \cup {p \in Elems(remote) \ Elems(packages_(manifest)) :
             pkgdir[p] # "none"}
    \cup {p \in Elems(packages_(manifest)) \ Elems(remote) :
             NotUpdateable(p, upd)}

Selected(l, sel) ==
    IF sel = <<>> THEN l ELSE SelectSeq(l, LAMBDA p : p \in Elems(sel))

\* C12: update classification returns, for every remote listing, manifest
\* and selection: as candidates the listed packages of the manifest whose
\* status is not 'A' or '!' and whose working copy is updateable, as added
\* the listed packages without entry and without directory, as deleted the
\* unlisted packages of the manifest whose status is not 'A' and whose
\* working copy does not refuse, as conflicted all the others named; in the
\* order of the listing (of the manifest for deleted), cut to the selection.
C12_UpdateClassification ==
    (pc = "classified" /\ cur.op = "update")
        => /\ last.err = "ok"
           /\ cur.info.candidates
                 = Selected(ExpectedCandidates(cur.answers), cur.sel)
           /\ cur.info.added = Selected(ExpectedAdded, cur.sel)
           /\ cur.info.deleted
                 = Selected(ExpectedDeleted(cur.answers), cur.sel)
           /\ Elems(cur.info.conflicted)
                 = {p \in ExpectedConflicted(cur.answers) :
                       cur.sel = <<>> \/ p \in Elems(cur.sel)}

\* C31: update classification returns a result and raises no error for
\* every remote listing and every local state, a tracked package marked
\* 'D' without a directory and listed by the server included.
C31_ClassificationTotal ==
    (pc = "classified" /\ cur.op = "update") => last.err = "ok"

NoDup(l) == \A i, j \in 1..Len(l) : i # j => l[i] # l[j]

\* C32: for a remote listing, a manifest and a selection without a name
\* given twice, no list of update classification or of commit
\* classification holds a package name twice.
C32_NoNameTwice ==
    (pc = "classified" /\ cur.op \in {"update", "commit"} /\ NoDup(cur.sel))
        => \A l \in ListNames : NoDup(cur.info[l])

(***************************************************************************)
(* Commit classification on its own, with the answers of the packages      *)
(* kept: any manifest, any directories, any selection (the remote listing  *)
(* plays no part)                                                          *)
(***************************************************************************)
CommitinfoChoices ==
    {k \in [1..MaxPkgs -> {c \in ClassifyKinds : c[3] = 0}] :
        \A i \in 1..(MaxPkgs - 1) : KindRank(k[i]) <= KindRank(k[i + 1])}

InitCommitinfo ==
    /\ InitCommon
    /\ rfile = NoFile
    /\ initialised = TRUE
    /\ store = FixtureStore
    /\ extstore = {}
    /\ remote = <<>>
    /\ \E k \in CommitinfoChoices :
          LET kind == [p \in Pkgs |->
                         k[CHOOSE i \in 1..MaxPkgs : PkgNames[i] = p]]
              t == Ordered({p \in Pkgs : kind[p][1] # 1})
          IN  /\ manifest = [i \in 1..Len(t) |->
                    [name |-> t[i], state |-> ClassifyStates[kind[t[i]][1]]]]
              /\ pkgdir = [p \in Pkgs |-> ClassifyDirs[kind[p][2]]]

\* prj._calculate_commitinfo(*sel) with packages that answer com to
\* is_commitable() and mod to is_modified()
test_commitinfo(sel, com, mod) ==
    /\ pc = "idle"
    /\ cur' = [cur EXCEPT !.op = "commitinfo", !.sel = sel,
                          !.answers = <<com, mod>>,
                          !.info = _calculate_commitinfo(manifest, pkgdir,
                                                         sel, com, mod)]
    /\ last' = [last EXCEPT !.err = "ok"]
    /\ pc' = "classified"
    /\ UNCHANGED <<diskvars, lock, waiting, packages, wlog, ghosts, nops,
                   nfail>>
    /\ UNCHANGED <<store, rfile, unfinished, opening, sent, inited>>

NextCommitinfo ==
    \E sel \in ClassifySelections, com \in Answers(manifest, pkgdir),
       mod \in Answers(manifest, pkgdir) :
       test_commitinfo(sel, com, mod)

SpecCommitinfo == InitCommitinfo /\ [][NextCommitinfo]_vars

\* the list commit classification has to put p in when the packages
\* answer com to is_commitable and mod to is_modified
CommitList(p, com, mod) ==
    LET e == EntryOf(manifest, p)
        st == IF e = "-" THEN "?"
              ELSE IF e \in {" ", "A"} /\ pkgdir[p] = "none" THEN "!"
              ELSE e
    IN  IF st = "A" THEN "added"
        ELSE IF st = "D" THEN "deleted"
        ELSE IF st \in {"!", "?"} THEN "conflicted"
        ELSE IF mod[p] /\ com[p] THEN "modified"
        ELSE IF ~com[p] THEN "conflicted"
        ELSE "unchanged"

\* C28: commit classification puts every package of the selection (of the
\* manifest if there is none) in exactly one list and no other package in
\* any: status 'A' in added, 'D' in deleted, '!' and '?' in conflicted,
\* otherwise in modified if it is modified and commitable, in conflicted if
\* it is not commitable, and in unchanged if neither.
C28_CommitClassification ==
    (pc = "classified" /\ cur.op = "commitinfo")
        => LET sel == IF cur.sel = <<>> THEN packages_(manifest) ELSE cur.sel
           IN  \A p \in Pkgs, l \in ListNames :
                  Contains(cur.info[l], p)
                     <=> /\ Contains(sel, p)
                         /\ l = CommitList(p, cur.answers[1], cur.answers[2])

\* a modified package that is not commitable was classified together with a
\* package marked 'D' whose directory is gone
C28_Witness ==
    /\ pc = "classified"
    /\ cur.op = "commitinfo"
    /\ \E p, q \in Pkgs :
          /\ cur.answers[2][p] /\ ~cur.answers[1][p]
          /\ Contains(cur.info.conflicted, p)
          /\ EntryOf(manifest, q) = "D" /\ pkgdir[q] = "none"
          /\ Contains(cur.info.deleted, q)

(***************************************************************************)
(* The working copy prj2 of the tests: foo=' ', bar='A', abc='D', xxx=' '  *)
(* without directory, del='D' without directory, the untracked directory  *)
(* asdf, and a remote listing of some of foo, bar, abc, xxx, del, osc      *)
(***************************************************************************)
Prj2Names == <<"foo", "bar", "abc", "xxx", "del", "osc", "asdf">>

Prj2Manifest ==
    << [name |-> "foo", state |-> " "], [name |-> "bar", state |-> "A"],
       [name |-> "abc", state |-> "D"], [name |-> "xxx", state |-> " "],
       [name |-> "del", state |-> "D"] >>

Prj2Dirs ==
    [p \in Elems(Prj2Names) |->
        IF p \in {"foo", "bar", "abc"} THEN "wc"
        ELSE IF p = "asdf" THEN "dir" ELSE "none"]

\* the listings: the packages of a set in the order of Prj2Names
Prj2Listings ==
    {SelectSeq(Prj2Names, LAMBDA p : p \in S) :
        S \in SUBSET {"foo", "bar", "abc", "xxx", "del", "osc"}}

InitPrj2 ==
    /\ InitCommon
    /\ rfile = NoFile
    /\ initialised = TRUE
    /\ store = FixtureStore
    /\ extstore = {}
    /\ manifest = Prj2Manifest
    /\ pkgdir = Prj2Dirs
    /\ remote \in Prj2Listings

\* test6 and test7, test8, test9: every package working copy of the
\* fixture is updateable
NextPrj2 ==
    \/ \E pkg \in Elems(Prj2Names) : test_status(pkg)
    \/ classify_update(<<>>, [p \in Elems(Prj2Names) |-> TRUE])

SpecPrj2 == InitPrj2 /\ [][NextPrj2]_vars

\* the update classification of prj2 returned these four lists
Prj2Lists(candidates, added, deleted, conflicted) ==
    /\ last.err = "ok"
    /\ cur.info.candidates = candidates
    /\ cur.info.added = added
    /\ cur.info.deleted = deleted
    /\ cur.info.conflicted = conflicted

Prj2Classified(R) ==
    pc = "classified" /\ cur.op = "update" /\ remote = R

\* C13 as stated: for the remote listing foo, abc, osc the classification
\* of prj2 is candidates foo, abc; added osc; deleted del; conflicted xxx.
\* For foo, bar, osc it is candidates foo; added osc; deleted abc, xxx, del;
\* conflicted bar. For the empty listing everything tracked but bar is
\* deleted.
C13_Prj2Listed ==
    /\ Prj2Classified(<<"foo", "abc", "osc">>)
          => Prj2Lists(<<"foo", "abc">>, <<"osc">>, <<"del">>, <<"xxx">>)
    /\ Prj2Classified(<<"foo", "bar", "osc">>)
          => Prj2Lists(<<"foo">>, <<"osc">>, <<"abc", "xxx", "del">>,
                       <<"bar">>)
    /\ Prj2Classified(<<>>)
          => Prj2Lists(<<>>, <<>>, <<"foo", "abc", "xxx", "del">>, <<>>)

\* C13 amended: the first result is the one of the listing foo, abc, xxx,
\* osc; for the listing foo, abc, osc the missing package xxx is deleted
\* with del and nothing is conflicted. The other two results are as stated.
C13_Prj2 ==
    /\ Prj2Classified(<<"foo", "abc", "xxx", "osc">>)
          => Prj2Lists(<<"foo", "abc">>, <<"osc">>, <<"del">>, <<"xxx">>)
    /\ Prj2Classified(<<"foo", "abc", "osc">>)
          => Prj2Lists(<<"foo", "abc">>, <<"osc">>, <<"xxx", "del">>, <<>>)
    /\ Prj2Classified(<<"foo", "bar", "osc">>)
          => Prj2Lists(<<"foo">>, <<"osc">>, <<"abc", "xxx", "del">>,
                       <<"bar">>)
    /\ Prj2Classified(<<>>)
          => Prj2Lists(<<>>, <<>>, <<"foo", "abc", "xxx", "del">>, <<>>)

\* prj2 was classified against foo, bar, osc: bar is conflicted
C13_Witness ==
    /\ Prj2Classified(<<"foo", "bar", "osc">>)
    /\ cur.info.conflicted = <<"bar">>

(***************************************************************************)
(* The store on its own: any of the four store paths may be missing, the   *)
(* _packages file may hold a manifest, nothing at all or text that is no   *)
(* XML; Project.init and the constructor are called on it                  *)
(***************************************************************************)
\* the contents of _packages that do not parse: the empty file and a
\* truncated document
Unparseable == {<<>>, <<"<packages">>}

StoreChoices ==
    {s \in [Elems(StoreFiles) -> {NoPath, XmlFile} \cup
                {TextFile(t) : t \in Unparseable
                                   \cup {Line(v) : v \in Projects \cup Apiurls}}] :
        /\ s["_project"] \in {NoPath} \cup {TextFile(Line(v)) : v \in Projects}
        /\ s["_apiurl"] \in {NoPath} \cup {TextFile(Line(v)) : v \in Apiurls}
        /\ s["_packages"] \in {NoPath, XmlFile}
                                \cup {TextFile(t) : t \in Unparseable}
        /\ s["data"] \in {NoPath, TextFile(<<>>)}}

InitStore ==
    /\ InitCommon
    /\ rfile = NoFile
    /\ pkgdir = [p \in Pkgs |-> "none"]
    /\ extstore = {}
    /\ remote = <<>>
    /\ \/ /\ initialised = FALSE
          /\ store = NoStore
          /\ manifest = <<>>
       \/ /\ initialised = TRUE
          /\ store \in StoreChoices
          /\ manifest \in IF store["_packages"].xml
                           THEN {<<>>, <<[name |-> PkgNames[1],
                                          state |-> "D"]>>}
                           ELSE {<<>>}

NextStore ==
    \/ \E project \in Projects, apiurl \in Apiurls : init(project, apiurl)
    \/ Project

SpecStore == InitStore /\ [][NextStore]_vars

\* C16: after init(path, P, U) on a fresh directory the store holds
\* _project = P and a newline, _apiurl = U and a newline, _packages =
\* <packages/> and a newline, and data/; the project init returns and every
\* project opened afterwards has name P, apiurl U and no packages.
C16_InitConsistent ==
    last.op = "init"
        => /\ store["_project"] = TextFile(<<last.arg[1], "\n">>)
           /\ store["_apiurl"] = TextFile(<<last.arg[2], "\n">>)
           /\ store["_packages"].exists
           /\ PackagesText(store, manifest) = <<"<packages/>", "\n">>
           /\ store["data"].exists
           /\ waiting # EmptyBag
           /\ \A h \in BagToSet(waiting) :
                 h = [name |-> last.arg[1], apiurl |-> last.arg[2],
                      packages |-> <<>>]

\* the working copy init created has been opened a second time
C16_Witness ==
    /\ last.op = "init"
    /\ BagCardinality(waiting) = 2

\* C17: the constructor opens the working copy if and only if no store
\* path is missing and _packages parses; otherwise it raises
\* WCInconsistentError with the missing paths and the text of _packages
\* (if the file is there and does not parse); it never changes the store.
C17_OpenIffConsistent ==
    [][(initialised' = initialised)
          => /\ store' = store
             /\ manifest' = manifest
             /\ IF \/ \E f \in Elems(StoreFiles) : ~store[f].exists
                   \/ ~store["_packages"].xml
                THEN /\ waiting' = waiting
                     /\ last'.op = "Project"
                     /\ last'.err = "WCInconsistentError"
                     /\ Elems(last'.arg)
                           = {f \in Elems(StoreFiles) : ~store[f].exists}
                     /\ last'.raw = IF store["_packages"].exists
                                    THEN store["_packages"].text ELSE <<>>
                ELSE waiting' = waiting (+) SetToBag({
                        [name |-> store["_project"].text[1],
                         apiurl |-> store["_apiurl"].text[1],
                         packages |-> manifest]})]_vars

(***************************************************************************)
(* osc/remote.py: one RemoteFile that write_to is called on, or one        *)
(* RWRemoteFile that is read, written, sought and closed                   *)
(***************************************************************************)
enginevars == <<diskvars, lock, waiting, pc, packages, cur, last, wlog,
                ghosts, nops, nfail, store, unfinished, opening, sent,
                inited>>

InitRemote ==
    /\ InitCommon
    /\ initialised = FALSE
    /\ store = NoStore
    /\ manifest = <<>>
    /\ pkgdir = [p \in Pkgs |-> "none"]
    /\ extstore = {}
    /\ remote = <<>>
    /\ \/ \E b \in 1..MaxBuf, l \in 0..MaxLen :
             rfile = [NoFile EXCEPT !.kind = "RemoteFile",
                                    !.stream_bufsize = b, !.length = l]
       \/ \E a \in BOOLEAN :
             rfile = [NoFile EXCEPT !.kind = "RWRemoteFile", !.append = a]

\* self._fobj.read(size): the number of bytes the response delivers
ReadLen(f, size) ==
    IF size < 0 \/ size > f.length - f.fpos THEN f.length - f.fpos ELSE size

\* RemoteFile.write_to(dest, size): _write_to enters __iter__(size), which
\* sets rsize and reads for the first time
write_to(size) ==
    /\ rfile.kind = "RemoteFile"
    /\ rfile.pc = "new"
    /\ LET rsize == IF size >= 0 /\ size < rfile.stream_bufsize
                    THEN size ELSE rfile.stream_bufsize
           n == ReadLen(rfile, rsize)
       IN  rfile' = [rfile EXCEPT !.arg = size, !.size = size,
                                  !.rsize = rsize, !.data = n,
                                  !.fpos = @ + n, !.pc = "iter"]
    /\ UNCHANGED enginevars

\* RemoteFile.__iter__, one round of `while data`: the data is yielded and
\* written to dest, size is counted down, the next data is read
RemoteFile__iter__ ==
    /\ rfile.kind = "RemoteFile"
    /\ rfile.pc = "iter"
    /\ IF rfile.data = 0
       THEN rfile' = [rfile EXCEPT !.pc = "done"]
       ELSE LET size == rfile.size - rfile.data
                n == ReadLen(rfile, rfile.rsize)
            IN  IF size = 0
                THEN rfile' = [rfile EXCEPT !.dest = @ + rfile.data,
                                           !.size = size, !.data = 0,
                                           !.pc = "done"]
                ELSE rfile' = [rfile EXCEPT !.dest = @ + rfile.data,
                                           !.size = size, !.data = n,
                                           !.fpos = @ + n]
    /\ UNCHANGED enginevars

\* RWRemoteFile._init_sio(read_required)
_init_sio(f, read_required) ==
    [f EXCEPT !.fetched = @ \/ read_required \/ f.append, !.sio = TRUE]

\* RWRemoteFile.read
RWRemoteFile_read ==
    /\ rfile.kind = "RWRemoteFile"
    /\ ~rfile.closed
    /\ rfile.ncalls < MaxCalls
    /\ rfile' = [(IF rfile.sio THEN rfile ELSE _init_sio(rfile, TRUE))
                    EXCEPT !.ncalls = @ + 1]
    /\ UNCHANGED enginevars

\* RWRemoteFile.__getattr__(name) and the call of the StringIO method it
\* returns: write, seek
RWRemoteFile__getattr__(name) ==
    /\ rfile.kind = "RWRemoteFile"
    /\ ~rfile.closed
    /\ rfile.ncalls < MaxCalls
    /\ rfile' = [(IF rfile.sio THEN rfile
                  ELSE _init_sio(rfile, name # "write"))
                    EXCEPT !.ncalls = @ + 1,
                           !.wrote = @ \/ name = "write"]
    /\ UNCHANGED enginevars

\* RWRemoteFile.close: self._sio.getvalue() and the write-back request
RWRemoteFile_close ==
    /\ rfile.kind = "RWRemoteFile"
    /\ ~rfile.closed
    /\ rfile' = IF ~rfile.sio
                THEN [rfile EXCEPT !.closed = TRUE, !.err = "AttributeError"]
                ELSE [rfile EXCEPT !.closed = TRUE, !.err = "ok",
                                   !.wb = TRUE]
    /\ UNCHANGED enginevars

NextRemote ==
    \/ \E size \in -1..(MaxLen + 1) : write_to(size)
    \/ RemoteFile__iter__
    \/ RWRemoteFile_read
    \/ \E name \in {"write", "seek"} : RWRemoteFile__getattr__(name)
    \/ RWRemoteFile_close

SpecRemote == InitRemote /\ [][NextRemote]_vars

\* C18: write_to(dest, size=n) writes min(n, length of the file) bytes to
\* dest if n >= 0 and the whole file if n < 0, whatever stream_bufsize is.
C18_WritesOnlySize ==
    (rfile.kind = "RemoteFile" /\ rfile.pc = "done")
        => rfile.dest = IF rfile.arg < 0 \/ rfile.arg > rfile.length
                        THEN rfile.length ELSE rfile.arg

\* C19: close() of an RWRemoteFile sends the write-back request if and
\* only if write was invoked on the file, and raises nothing.
C19_WritebackIffWritten ==
    (rfile.kind = "RWRemoteFile" /\ rfile.closed)
        => /\ rfile.err = "ok"
           /\ rfile.wb <=> rfile.wrote

TypeOK == lock \in BOOLEAN
====
